---- MODULE Spec2Model ----
(***************************************************************************)
(* Stats reconciliation of the content-automation repository: the sheet    *)
(* helper (getPostsNeedingStats, getAverageEngagement, writeStats,         *)
(* copyRowToTab, getRawRows) and the four stats-collection loops that      *)
(* drive it (page scraping, Voyager/hybrid feed, X API, LinkedIn API).     *)
(*                                                                         *)
(* Text is a sequence of one-character strings; a sheet cell is a text.    *)
(* Numbers that JavaScript can make NaN carry the value NaN (-1): every    *)
(* real metric is a natural number.  Floating point rounding is not        *)
(* modelled: a mean is kept as the exact fraction n/d.                     *)
(***************************************************************************)
EXTENDS Integers, Sequences, FiniteSets, TLC

(* ----------------------------- bounds ---------------------------------- *)
MaxRows == 2
MaxPasses == 2
MaxFaults == 1

(* ------------------------------ text ----------------------------------- *)
NaN == -1

Min(a, b) == IF a <= b THEN a ELSE b

DigitChars == <<"0", "1", "2", "3", "4", "5", "6", "7", "8", "9">>

IsDigit(c) == \E i \in 1..10 : DigitChars[i] = c

DigitVal(c) == (CHOOSE i \in 1..10 : DigitChars[i] = c) - 1

IsSpace(c) == c = " "

\* String.prototype.substring(0, n)
Substring0(s, n) == SubSeq(s, 1, Min(n, Len(s)))

RECURSIVE TrimStart(_)
TrimStart(s) ==
    IF s # <<>> /\ IsSpace(Head(s)) THEN TrimStart(Tail(s)) ELSE s

RECURSIVE TrimEnd(_)
TrimEnd(s) ==
    IF s # <<>> /\ IsSpace(s[Len(s)]) THEN TrimEnd(SubSeq(s, 1, Len(s) - 1)) ELSE s

\* String.prototype.trim()
Trim(s) == TrimEnd(TrimStart(s))

\* s.split(':').pop(): the text after the last ':' (all of s when it has none)
RECURSIVE SplitPop(_)
SplitPop(s) ==
    IF \E i \in 1..Len(s) : s[i] = ":"
    THEN SplitPop(SubSeq(s, (CHOOSE i \in 1..Len(s) : s[i] = ":") + 1, Len(s)))
    ELSE s

\* String.prototype.includes(sub)
Includes(s, sub) ==
    \E i \in 1..(Len(s) - Len(sub) + 1) : SubSeq(s, i, i + Len(sub) - 1) = sub

\* Number -> text, as a number written to a cell reads back (decimal digits)
RECURSIVE NumToText(_)
NumToText(n) ==
    IF n < 10 THEN <<DigitChars[n + 1]>>
    ELSE Append(NumToText(n \div 10), DigitChars[(n % 10) + 1])

RECURSIVE Pow10(_)
Pow10(k) == IF k = 0 THEN 1 ELSE 10 * Pow10(k - 1)

\* The longest prefix of s made of digits
RECURSIVE DigitRun(_)
DigitRun(s) ==
    IF s # <<>> /\ IsDigit(Head(s)) THEN <<Head(s)>> \o DigitRun(Tail(s)) ELSE <<>>

RECURSIVE DigitsValue(_)
DigitsValue(ds) ==
    IF ds = <<>> THEN 0
    ELSE 10 * DigitsValue(SubSeq(ds, 1, Len(ds) - 1)) + DigitVal(ds[Len(ds)])

\* parseFloat(text): leading blanks skipped, an optional sign, then the longest
\* prefix digits[.digits]; the fraction n/d, or nan when no digit was read.
\* (Exponents and "Infinity" are not in the alphabet of the modelled cells.)
ParseFloat(text) ==
    LET t0 == TrimStart(text)
        neg == t0 # <<>> /\ Head(t0) = "-"
        t1 == IF t0 # <<>> /\ Head(t0) \in {"-", "+"} THEN Tail(t0) ELSE t0
        ip == DigitRun(t1)
        r1 == SubSeq(t1, Len(ip) + 1, Len(t1))
        fp == IF r1 # <<>> /\ Head(r1) = "." THEN DigitRun(Tail(r1)) ELSE <<>>
        mag == DigitsValue(ip \o fp)
    IN  IF ip = <<>> /\ fp = <<>>
        THEN [nan |-> TRUE, n |-> 0, d |-> 1]
        ELSE [nan |-> FALSE, n |-> IF neg THEN 0 - mag ELSE mag, d |-> Pow10(Len(fp))]

(* ------------------------------ ledger --------------------------------- *)
\* The clock of getPostsNeedingStats (new Date()), in units of half an hour,
\* and the number of such units in the hour of "hoursSincePost >= 1".
Now == 10
HourUnits == 2

\* A Posted At cell: empty, a text Date cannot parse, or a time (in clock units)
NoDate == [kind |-> "empty", t |-> 0]
BadDate == [kind |-> "invalid", t |-> 0]
DateAt(t) == [kind |-> "time", t |-> t]

\* The Winner cell of a winner (the trophy emoji)
Trophy == <<"T">>

\* One data row of a Posted tab, columns E (Posted At), F (Platform Post ID),
\* B (Content), G (Impressions), H (Engagement), I (Engagement Rate), J (Winner).
\* Data row k of the sequence is sheet row k + 1 (row 1 is the header).
MkRow(postedAt, ppid, content, imp, eng, rate, win) ==
    [postedAt |-> postedAt, ppid |-> ppid, content |-> content,
     impressions |-> imp, engagement |-> eng, rate |-> rate, winner |-> win]

\* The row test without its age gate: Posted At set, Impressions empty
NeedsStatsYoung(row, now) ==
    /\ row.postedAt.kind # "empty"
    /\ row.impressions = <<>>

\* getPostsNeedingStats, the test of one row: Posted At set, Impressions empty,
\* and posted at least one hour ago (an unparseable date gives NaN >= 1, false)
NeedsStats(row, now) ==
    /\ row.postedAt.kind # "empty"
    /\ row.impressions = <<>>
    /\ row.postedAt.kind = "time"
    /\ now - row.postedAt.t >= HourUnits

\* getPostsNeedingStats: the rows that need stats, in sheet order
RECURSIVE NeedStatsFrom(_, _, _)
NeedStatsFrom(sheet, i, now) ==
    IF i > Len(sheet) THEN <<>>
    ELSE (IF NeedsStats(sheet[i], now)
          THEN <<[rowIndex |-> i + 1, platformPostId |-> sheet[i].ppid]>>
          ELSE <<>>) \o NeedStatsFrom(sheet, i + 1, now)

GetPostsNeedingStats(sheet, now) == NeedStatsFrom(sheet, 1, now)

\* getAverageEngagement: parseFloat(cell) || 0, keep those > 0
EngagementNumber(cell) ==
    LET f == ParseFloat(cell) IN IF f.nan THEN [nan |-> FALSE, n |-> 0, d |-> 1] ELSE f

CountsInAverage(cell) == EngagementNumber(cell).n > 0

RECURSIVE MaxDen(_, _)
MaxDen(sheet, i) ==
    IF i > Len(sheet) THEN 1
    ELSE LET rest == MaxDen(sheet, i + 1)
             d == EngagementNumber(sheet[i].engagement).d
         IN  IF CountsInAverage(sheet[i].engagement) /\ d > rest THEN d ELSE rest

RECURSIVE SumScaled(_, _, _)
SumScaled(sheet, i, den) ==
    IF i > Len(sheet) THEN 0
    ELSE (IF CountsInAverage(sheet[i].engagement)
          THEN LET f == EngagementNumber(sheet[i].engagement) IN f.n * (den \div f.d)
          ELSE 0) + SumScaled(sheet, i + 1, den)

CountPositive(sheet) ==
    Cardinality({i \in 1..Len(sheet) : CountsInAverage(sheet[i].engagement)})

\* The mean as the exact fraction n/d; 0/1 when no cell counts
GetAverageEngagement(sheet) ==
    IF CountPositive(sheet) = 0 THEN [n |-> 0, d |-> 1]
    ELSE LET den == MaxDen(sheet, 1)
         IN  [n |-> SumScaled(sheet, 1, den), d |-> den * CountPositive(sheet)]

\* ((engagement / impressions) * 100).toFixed(2) + '%'
TwoDigits(n) == <<DigitChars[(n \div 10) + 1], DigitChars[(n % 10) + 1]>>

\* A rate cell that is the zero rate whatever the numbers
ZeroRate(impressions, engagement) == <<"0", "%">>

\* engagementRate of writeStats
EngagementRate(impressions, engagement) ==
    IF impressions > 0
    THEN IF engagement = NaN THEN <<"N", "a", "N", "%">>
         ELSE LET h == (2 * engagement * 10000 + impressions) \div (2 * impressions)
              IN  NumToText(h \div 100) \o <<".">> \o TwoDigits(h % 100) \o <<"%">>
    ELSE <<"0", "%">>

\* A number sent in values.update: NaN is serialised as null, and a null value
\* leaves its cell as it was; any other number becomes the cell's text.
WrittenCell(old, num) == IF num = NaN THEN old ELSE NumToText(num)

\* An update whose range starts at column A: it overwrites the first cells of
\* the row with the stats
WriteStatsFromColumnA(sheet, rowIndex, stats) ==
    LET k == rowIndex - 1
        r == sheet[k]
    IN  [sheet EXCEPT ![k] =
            [r EXCEPT !.postedAt = BadDate,
                      !.ppid = WrittenCell(r.ppid, stats.engagement),
                      !.content = EngagementRate(stats.impressions, stats.engagement)]]

\* writeStats: one update of G:J of the row
WriteStats(sheet, rowIndex, stats) ==
    LET k == rowIndex - 1
        r == sheet[k]
    IN  [sheet EXCEPT ![k] =
            [r EXCEPT !.impressions = WrittenCell(r.impressions, stats.impressions),
                      !.engagement = WrittenCell(r.engagement, stats.engagement),
                      !.rate = EngagementRate(stats.impressions, stats.engagement),
                      !.winner = IF stats.isWinner THEN Trophy ELSE <<>>]]

\* copyRowToTab: append a copy of the row (as it is now) to the target tab
CopyRowToTab(sheet, target, rowIndex) ==
    IF rowIndex - 1 > Len(sheet) THEN target
    ELSE Append(target, [from |-> rowIndex, row |-> sheet[rowIndex - 1]])

(* ------------------------- observed posts ------------------------------ *)
\* One observed post: what the page scrape pushes ({urn, deepUrns, content,
\* impressions, reactions, comments}), what a Voyager feed element carries
\* (urn, commentary text, numLikes, numComments) and what the X / LinkedIn
\* APIs return for the post with this identifier.
MkPost(urn, deepUrns, content, imp, reactions, comments) ==
    [urn |-> urn, deepUrns |-> deepUrns, content |-> content,
     impressions |-> imp, reactions |-> reactions, comments |-> comments]

\* x || 0 on a number: NaN and 0 are falsy
OrZero(x) == IF x = NaN THEN 0 ELSE x

\* a + b on numbers: NaN is absorbing
Plus(a, b) == IF a = NaN \/ b = NaN THEN NaN ELSE a + b

(* ------------------------- normalizeText ------------------------------- *)
UpperChars == <<"A", "B", "C", "D", "E", "F", "G", "H", "I", "J", "K", "L", "M",
                "N", "O", "P", "Q", "R", "S", "T", "U", "V", "W", "X", "Y", "Z">>
LowerChars == <<"a", "b", "c", "d", "e", "f", "g", "h", "i", "j", "k", "l", "m",
                "n", "o", "p", "q", "r", "s", "t", "u", "v", "w", "x", "y", "z">>

ToLowerChar(c) ==
    IF \E i \in 1..26 : UpperChars[i] = c
    THEN LowerChars[CHOOSE i \in 1..26 : UpperChars[i] = c]
    ELSE c

\* \w of a lower-cased character
IsWordChar(c) == IsDigit(c) \/ c = "_" \/ \E i \in 1..26 : LowerChars[i] = c

RECURSIVE ToLowerCase(_)
ToLowerCase(s) ==
    IF s = <<>> THEN <<>> ELSE <<ToLowerChar(Head(s))>> \o ToLowerCase(Tail(s))

\* --- parseMetricNumber (page scrape) ---
\* The text with its commas and blanks left in
KeepSeparators(s) == s

\* str.replace(/[,\s]/g, '')
RECURSIVE StripSeparators(_)
StripSeparators(s) ==
    IF s = <<>> THEN <<>>
    ELSE (IF Head(s) = "," \/ IsSpace(Head(s)) THEN <<>> ELSE <<Head(s)>>)
         \o StripSeparators(Tail(s))

IsNumChar(c) == IsDigit(c) \/ c = "."

\* The longest prefix of s made of digits and dots: the group ([\d.]+)
RECURSIVE NumRun(_)
NumRun(s) ==
    IF s # <<>> /\ IsNumChar(Head(s)) THEN <<Head(s)>> \o NumRun(Tail(s)) ELSE <<>>

\* Math.round of the non-negative fraction n/d
RoundFraction(n, d) == (2 * n + d) \div (2 * d)

\* parseMetricNumber(str): NaN when the first run of digits and dots is not a
\* number for parseFloat (a lone ".", "..5")
ParseMetricNumber(str) ==
    IF str = <<>> THEN 0
    ELSE LET t == ToLowerCase(StripSeparators(str))
         IN  IF ~\E i \in 1..Len(t) : IsNumChar(t[i]) THEN 0
             ELSE LET k == CHOOSE i \in 1..Len(t) :
                               IsNumChar(t[i]) /\ \A j \in 1..(i - 1) : ~IsNumChar(t[j])
                      run == NumRun(SubSeq(t, k, Len(t)))
                      rest == SubSeq(t, k + Len(run), Len(t))
                      f == ParseFloat(run)
                      mult == IF rest # <<>> /\ Head(rest) = "k" THEN 1000
                              ELSE IF rest # <<>> /\ Head(rest) = "m" THEN 1000000
                              ELSE 1
                  IN  IF f.nan THEN NaN ELSE RoundFraction(f.n * mult, f.d)

\* .replace(/[^\w\s]/g, '')
RECURSIVE StripPunctuation(_)
StripPunctuation(s) ==
    IF s = <<>> THEN <<>>
    ELSE (IF IsWordChar(Head(s)) \/ IsSpace(Head(s)) THEN <<Head(s)>> ELSE <<>>)
         \o StripPunctuation(Tail(s))

\* .replace(/\s+/g, ' ')
RECURSIVE CollapseSpaces(_)
CollapseSpaces(s) ==
    IF s = <<>> THEN <<>>
    ELSE IF IsSpace(Head(s))
         THEN <<" ">> \o CollapseSpaces(TrimStart(s))
         ELSE <<Head(s)>> \o CollapseSpaces(Tail(s))

NormalizeText(text) == Trim(CollapseSpaces(StripPunctuation(ToLowerCase(text))))

\* s.split(/\s+/): the pieces between runs of blanks ("" gives one empty piece)
RECURSIVE SplitWords(_)
SplitWords(s) ==
    IF \E i \in 1..Len(s) : IsSpace(s[i])
    THEN LET k == CHOOSE i \in 1..Len(s) :
                     IsSpace(s[i]) /\ \A j \in 1..(i - 1) : ~IsSpace(s[j])
         IN  <<SubSeq(s, 1, k - 1)>> \o SplitWords(TrimStart(SubSeq(s, k, Len(s))))
    ELSE <<s>>

(* --------------------- page scrape: the matcher ------------------------ *)
PrefixLen == 50
WordLimit == 20

\* Every word of the sheet content has to be found
AllWords(matchCount, total) == matchCount >= total

\* findMatchingPost with the fuzzy test only
TokensOnly(normalizedSheet, post) ==
    LET sheetWords == SplitWords(normalizedSheet)
        scrapedWords == SplitWords(NormalizeText(post.content))
    IN  Cardinality({i \in 1..Len(sheetWords) :
            \E j \in 1..Len(scrapedWords) : scrapedWords[j] = sheetWords[i]})
            = Len(sheetWords)

\* matchCount / sheetWords.length >= 0.8
EnoughWords(matchCount, total) == 5 * matchCount >= 4 * total

\* findMatchingPost, the test of one scraped post
ContentMatches(normalizedSheet, post) ==
    LET normalizedScraped == NormalizeText(post.content)
        sheetWords == SubSeq(SplitWords(normalizedSheet), 1,
                             Min(WordLimit, Len(SplitWords(normalizedSheet))))
        scrapedWords == SubSeq(SplitWords(normalizedScraped), 1,
                               Min(WordLimit, Len(SplitWords(normalizedScraped))))
        matchCount == Cardinality({i \in 1..Len(sheetWords) :
                          \E j \in 1..Len(scrapedWords) : scrapedWords[j] = sheetWords[i]})
    IN  \/ Substring0(normalizedSheet, PrefixLen) = Substring0(normalizedScraped, PrefixLen)
        \/ (Len(sheetWords) # 0 /\ EnoughWords(matchCount, Len(sheetWords)))

\* The first of the indices in hits (the element find / the loop returns), 0 when none
FirstIndex(hits) ==
    IF hits = {} THEN 0 ELSE CHOOSE i \in hits : \A j \in hits : i <= j

\* The search without the test for an empty sheet content
FindMatchingPostUnguarded(sheetContent, scrapedPosts) ==
    FirstIndex({i \in 1..Len(scrapedPosts) :
                   ContentMatches(NormalizeText(sheetContent), scrapedPosts[i])})

\* findMatchingPost(sheetContent, scrapedPosts): index of the post, 0 for null
FindMatchingPost(sheetContent, scrapedPosts) ==
    IF sheetContent = <<>> THEN 0
    ELSE LET normalizedSheet == NormalizeText(sheetContent)
         IN  FirstIndex({i \in 1..Len(scrapedPosts) :
                            ContentMatches(normalizedSheet, scrapedPosts[i])})

\* posts.find(p => urn includes sheetId, or some deep URN includes it)
IdMatchesScraped(p, sheetId) ==
    \/ (p.urn # <<>> /\ Includes(p.urn, sheetId))
    \/ \E u \in p.deepUrns : Includes(u, sheetId)

FindById(platformPostId, scrapedPosts) ==
    LET sheetId == SplitPop(platformPostId)
    IN  FirstIndex({i \in 1..Len(scrapedPosts) : IdMatchesScraped(scrapedPosts[i], sheetId)})

\* getPostContent(rowIndex): the Content cell of the row, <<>> for null
GetPostContent(sheet, rowIndex) ==
    IF rowIndex > Len(sheet) + 1 THEN <<>> ELSE sheet[rowIndex - 1].content

\* scrapePostStats pushes a post only when its text is not blank
ScrapedPosts(observed) == SelectSeq(observed, LAMBDA p : Trim(p.content) # <<>>)

(* ------------------- Voyager / hybrid: the stats map ------------------- *)
\* The keys one feed element is stored under: its URN, the URN's last
\* segment, and the trimmed first 50 characters of its commentary
StatsKeys(p) ==
    (IF p.urn # <<>> THEN {p.urn, SplitPop(p.urn)} ELSE {})
    \cup (IF p.content # <<>> THEN {Trim(Substring0(p.content, PrefixLen))} ELSE {})

\* postStats.get(key): a later element overwrites an earlier one's entry;
\* the index of the element whose stats the key holds, 0 when it has none
MapGet(feed, key) ==
    IF \E i \in 1..Len(feed) : key \in StatsKeys(feed[i])
    THEN CHOOSE i \in 1..Len(feed) :
             key \in StatsKeys(feed[i]) /\ \A j \in (i + 1)..Len(feed) : key \notin StatsKeys(feed[j])
    ELSE 0

\* Step 1 of the Voyager loop: get(id), else get(platformPostId)
VoyagerIdMatch(platformPostId, feed) ==
    IF platformPostId = <<>> THEN 0
    ELSE IF MapGet(feed, SplitPop(platformPostId)) # 0
         THEN MapGet(feed, SplitPop(platformPostId))
         ELSE MapGet(feed, platformPostId)

\* Step 2 of the Voyager loop: the row's Content cell, cut and trimmed, as key
VoyagerContentMatch(sheet, rowIndex, feed) ==
    LET content == IF rowIndex - 1 <= Len(sheet) THEN sheet[rowIndex - 1].content ELSE <<>>
    IN  IF content = <<>> THEN 0 ELSE MapGet(feed, Trim(Substring0(content, PrefixLen)))

(* --------------------- X and LinkedIn API fetch ------------------------ *)
\* The post the platform API returns for an identifier (0: the request fails)
FetchById(platformPostId, observed) ==
    IF platformPostId = <<>> THEN 0
    ELSE FirstIndex({i \in 1..Len(observed) : observed[i].urn = platformPostId})

(* --------------------------- classification --------------------------- *)
Variants == {"browser", "voyager", "x", "linkedinApi"}

\* The loops with a try/catch around the body of one record
CatchesPerRecord(v) == v \in {"x", "linkedinApi"}

FallbackThreshold == 10

\* The comparison with an exclusive boundary: engagement > avgEngagement * 2
AtLeastTwiceStrict(engagement, average) ==
    engagement # NaN /\ engagement * average.d > 2 * average.n

\* engagement >= avgEngagement * 2, on the exact mean n/d
AtLeastTwice(engagement, average) ==
    engagement # NaN /\ engagement * average.d >= 2 * average.n

\* isWinner of each loop
IsWinner(v, engagement, average) ==
    CASE v = "browser" ->
            IF average.n > 0 THEN AtLeastTwice(engagement, average)
            ELSE engagement # NaN /\ engagement >= FallbackThreshold
      [] v = "voyager" -> engagement > 0 /\ AtLeastTwice(engagement, average)
      [] v = "x" -> AtLeastTwice(engagement, average)
      [] v = "linkedinApi" -> engagement > 0 /\ AtLeastTwice(engagement, average)

\* Impressions taken from the post whichever request answered
ImpressionsOfPost(v, p, viaFallback) == OrZero(p.impressions)

\* The impressions handed to writeStats: the scraped number, 0 in the Voyager
\* pass, the API's number, and 0 when the LinkedIn fallback request answered
\* (socialMetadata has no impressions)
ImpressionsOf(v, p, viaFallback) ==
    CASE v = "browser" -> p.impressions
      [] v = "voyager" -> 0
      [] v = "x" -> OrZero(p.impressions)
      [] v = "linkedinApi" -> IF viaFallback THEN 0 ELSE OrZero(p.impressions)

\* The stats object handed to writeStats for a matched post
StatsOf(v, p, average, viaFallback) ==
    LET engagement ==
            IF v = "browser" THEN Plus(p.reactions, p.comments)
            ELSE OrZero(p.reactions) + OrZero(p.comments)
        impressions == ImpressionsOf(v, p, viaFallback)
    IN  [impressions |-> impressions, engagement |-> engagement,
         isWinner |-> IsWinner(v, engagement, average)]

(* ------------------------------ state ---------------------------------- *)
VARIABLES
    variant,    \* which stats-collection script runs
    observed,   \* the posts the platform shows (fixed: no new external data)
    sheet,      \* the data rows of the Posted tab
    winners,    \* the rows appended to the Winners tab
    pc,         \* where the pass is
    passNo,     \* the number of the running pass
    pending,    \* postsNeedingStats of this pass
    idx,        \* position of the loop in pending
    avg,        \* avgEngagement of this pass
    cur,        \* the match and stats of the record being processed
    faults,     \* exceptions and kills injected so far
    log,        \* the ledger and matcher calls of the running pass, in order
    earlier,    \* for each earlier pass, whether it threw or was killed
    startSheet, \* the Posted tab as it was when the running pass began
    counterText, \* a counter text of the page, as handed to parseMetricNumber
    parsed,     \* what parseMetricNumber returned for it
    otherTabs,  \* collect-stats: the tabs and posts of the platform whose pass
                \* is not the running one
    queue,      \* the data rows of the Queue tab a posting or backfill run reads
    postedHeader \* whether row 1 of the Posted tab is its header row

vars == <<variant, observed, sheet, winners, pc, passNo, pending, idx, avg, cur,
          faults, log, earlier, startSheet, counterText, parsed, otherTabs, queue,
          postedHeader>>

ZeroAverage == [n |-> 0, d |-> 1]
\* textContent() of a locator that matched nothing: null
NoCounter == [present |-> FALSE, text |-> <<>>]
NotParsed == [done |-> FALSE, value |-> 0]
NoStats == [impressions |-> 0, engagement |-> 0, isWinner |-> FALSE]
NoMatch == [found |-> FALSE, by |-> "none", post |-> MkPost(<<>>, {}, <<>>, 0, 0, 0)]
NoCur == [match |-> NoMatch, stats |-> NoStats]
\* The scripts of one platform have no other tabs
NoTabs == [sheet |-> <<>>, winners |-> <<>>, observed |-> <<>>]

Event(op, row, ok, stats) ==
    [op |-> op, row |-> row, ok |-> ok, eng |-> stats.engagement, win |-> stats.isWinner]

\* An event that is an exception or a kill
IsFault(e) ==
    \/ e.op \in {"kill", "matchThrow", "rateLimit", "primaryFetch"}
    \/ (e.op \in {"source", "getPostsNeedingStats", "getAverageEngagement",
                  "writeStats", "copyRowToTab"} /\ ~e.ok)

(* ------------------------------ matching ------------------------------- *)
Found(by, post) == [found |-> TRUE, by |-> by, post |-> post]

\* Step 1 of the page-scrape and Voyager loops: the identifier
IdStage(v, post, posts) ==
    IF v = "browser"
    THEN LET scraped == ScrapedPosts(posts)
             i == IF post.platformPostId # <<>>
                  THEN FindById(post.platformPostId, scraped) ELSE 0
         IN  IF i # 0 THEN Found("id", scraped[i]) ELSE NoMatch
    ELSE LET i == VoyagerIdMatch(post.platformPostId, posts)
         IN  IF i # 0 THEN Found("id", posts[i]) ELSE NoMatch

\* Step 2, only when step 1 found nothing: the content (reads the raw rows)
ContentStage(v, post, rows, posts) ==
    IF v = "browser"
    THEN LET scraped == ScrapedPosts(posts)
             i == FindMatchingPost(GetPostContent(rows, post.rowIndex), scraped)
         IN  IF i # 0 THEN Found("content", scraped[i]) ELSE NoMatch
    ELSE LET i == VoyagerContentMatch(rows, post.rowIndex, posts)
         IN  IF i # 0 THEN Found("content", posts[i]) ELSE NoMatch

\* The X and LinkedIn API loops fetch the record's own post
FetchStage(post, posts) ==
    LET i == FetchById(post.platformPostId, posts)
    IN  IF i # 0 THEN Found("id", posts[i]) ELSE NoMatch

\* The order reversed: the content stage first, the identifier as fallback
ContentFirstMatch(v, post, rows, posts) ==
    IF ContentStage(v, post, rows, posts).found
    THEN ContentStage(v, post, rows, posts)
    ELSE IdStage(v, post, posts)

\* if (!match) { content match }: the content stage runs only when the
\* identifier stage found nothing
StagedMatch(v, post, rows, posts) ==
    IF IdStage(v, post, posts).found
    THEN IdStage(v, post, posts)
    ELSE ContentStage(v, post, rows, posts)

\* The content stage reads the raw rows of the Posted tab (getRawRows)
ReadsRawRows(v, post, posts) ==
    ~CatchesPerRecord(v) /\ ~IdStage(v, post, posts).found

(* ------------------------------ the pass ------------------------------- *)
\* A loop that does not advance: the same record again
SameRecord(i) == i

\* A loop that steps back to the record before once it is past the first
PreviousRecord(i) == IF i > 1 THEN i - 1 ELSE i + 1

\* for (const post of postsNeedingStats): the next position of the loop
NextRecord(i) == i + 1

AfterRecord ==
    /\ idx' = NextRecord(idx)
    /\ pc' = IF NextRecord(idx) > Len(pending) THEN "done" ELSE "match"

\* A baseline read again from the Engagement column at each record
FreshBaseline(stored, rows) == GetAverageEngagement(rows)

\* The baseline a classification uses: avgEngagement, read once before the loop
BaselineInLoop(stored, rows) == stored

CanFault == faults < MaxFaults

\* Whether main obtains the platform's metrics in one request before its loop
\* (scrapePostStats, getRecentActivity) or per record inside the loop
FetchesBeforeLoop(v) == v \in {"browser", "voyager"}

\* main starts: the page scrape and the Voyager script fetch the metrics first;
\* the page scrape returns early when it scraped no post
StartPass ==
    /\ pc = "idle"
    /\ pc' = IF variant = "browser" /\ Len(ScrapedPosts(observed)) = 0
             THEN "done" ELSE "getPending"
    /\ log' = IF FetchesBeforeLoop(variant)
              THEN Append(log, Event("source", Len(observed), TRUE, NoStats))
              ELSE log
    /\ UNCHANGED <<postedHeader, queue, otherTabs, counterText, parsed, variant, observed, sheet, winners, passNo, pending, idx, avg, cur,
                   faults, earlier, startSheet>>

\* The metric source rejects the session (page scrape, Voyager feed)
SourceFail ==
    /\ pc = "idle"
    /\ FetchesBeforeLoop(variant)
    /\ CanFault
    /\ faults' = faults + 1
    /\ pc' = "failed"
    /\ log' = Append(log, Event("source", 0, FALSE, NoStats))
    /\ UNCHANGED <<postedHeader, queue, otherTabs, counterText, parsed, variant, observed, sheet, winners, passNo, pending, idx, avg, cur, earlier, startSheet>>

\* The pass goes on to the baseline whatever the number of pending records
AlwaysAverage(n) == "getAvg"

\* if (postsNeedingStats.length === 0) return;
AfterPending(n) == IF n = 0 THEN "done" ELSE "getAvg"

GetPending ==
    /\ pc = "getPending"
    /\ pending' = GetPostsNeedingStats(sheet, Now)
    /\ pc' = AfterPending(Len(pending'))
    /\ log' = Append(log, Event("getPostsNeedingStats", Len(pending'), TRUE, NoStats))
    /\ UNCHANGED <<postedHeader, queue, otherTabs, counterText, parsed, variant, observed, sheet, winners, passNo, idx, avg, cur, faults, earlier, startSheet>>

GetPendingFail ==
    /\ pc = "getPending"
    /\ CanFault
    /\ faults' = faults + 1
    /\ pc' = "failed"
    /\ log' = Append(log, Event("getPostsNeedingStats", 0, FALSE, NoStats))
    /\ UNCHANGED <<postedHeader, queue, otherTabs, counterText, parsed, variant, observed, sheet, winners, passNo, pending, idx, avg, cur, earlier, startSheet>>

GetAverage ==
    /\ pc = "getAvg"
    /\ avg' = GetAverageEngagement(sheet)
    /\ idx' = 1
    /\ pc' = "match"
    /\ log' = Append(log, Event("getAverageEngagement", 0, TRUE, NoStats))
    /\ UNCHANGED <<postedHeader, queue, otherTabs, counterText, parsed, variant, observed, sheet, winners, passNo, pending, cur, faults, earlier, startSheet>>

GetAverageFail ==
    /\ pc = "getAvg"
    /\ CanFault
    /\ faults' = faults + 1
    /\ pc' = "failed"
    /\ log' = Append(log, Event("getAverageEngagement", 0, FALSE, NoStats))
    /\ UNCHANGED <<postedHeader, queue, otherTabs, counterText, parsed, variant, observed, sheet, winners, passNo, pending, idx, avg, cur, earlier, startSheet>>

\* One record: match (or fetch), then compute engagement and isWinner
Match ==
    /\ pc = "match"
    /\ LET post == pending[idx]
           m == IF CatchesPerRecord(variant) THEN FetchStage(post, observed)
                ELSE StagedMatch(variant, post, sheet, observed)
       IN  \E viaFallback \in IF variant = "linkedinApi" /\ m.found /\ CanFault
                              THEN BOOLEAN ELSE {FALSE} :
             /\ faults' = IF viaFallback THEN faults + 1 ELSE faults
             /\ log' = log \o (IF viaFallback
                                THEN <<Event("primaryFetch", post.rowIndex, FALSE, NoStats)>>
                                ELSE <<>>)
                            \o (IF ReadsRawRows(variant, post, observed)
                                THEN <<Event("getRawRows", post.rowIndex, TRUE, NoStats)>>
                                ELSE <<>>)
                            \o <<Event("match", post.rowIndex, m.found, NoStats)>>
             /\ IF m.found
                THEN /\ cur' = [match |-> m,
                                stats |-> StatsOf(variant, m.post,
                                                  BaselineInLoop(avg, sheet), viaFallback)]
                     /\ pc' = "write"
                     /\ idx' = idx
                ELSE /\ cur' = NoCur
                     /\ AfterRecord
    /\ UNCHANGED <<postedHeader, queue, otherTabs, counterText, parsed, variant, observed, sheet, winners, passNo, pending, avg, earlier, startSheet>>

\* What a failed fetch of one record can be: any error, or the platform's
\* rate-limit answer (429) where the loop asks the platform per record
FetchErrors(v) ==
    IF CatchesPerRecord(v) THEN {"matchThrow", "rateLimit"} ELSE {"matchThrow"}

\* The matcher throws: getRawRows (content stage) or the platform fetch fails;
\* the catch of the loop body treats a rate-limit error like any other
MatchFail ==
    /\ pc = "match"
    /\ CanFault
    /\ CatchesPerRecord(variant) \/ ~IdStage(variant, pending[idx], observed).found
    /\ faults' = faults + 1
    /\ \E error \in FetchErrors(variant) :
         log' = Append(log, Event(error, pending[idx].rowIndex, FALSE, NoStats))
    /\ cur' = NoCur
    /\ IF CatchesPerRecord(variant) THEN AfterRecord ELSE pc' = "failed" /\ idx' = idx
    /\ UNCHANGED <<postedHeader, queue, otherTabs, counterText, parsed, variant, observed, sheet, winners, passNo, pending, avg, earlier, startSheet>>

\* A copy made for every written record
CopiesEveryRecord(stats) == TRUE

\* if (isWinner) { ... copyRowToTab ... }, the statement after writeStats
CopiesAfterWrite(stats) == stats.isWinner

DoWriteStats ==
    /\ pc = "write"
    /\ sheet' = WriteStats(sheet, pending[idx].rowIndex, cur.stats)
    /\ log' = Append(log, Event("writeStats", pending[idx].rowIndex, TRUE, cur.stats))
    /\ IF CopiesAfterWrite(cur.stats) THEN pc' = "copy" /\ idx' = idx ELSE AfterRecord
    /\ UNCHANGED <<postedHeader, queue, otherTabs, counterText, parsed, variant, observed, winners, passNo, pending, avg, cur, faults, earlier, startSheet>>

WriteStatsFail ==
    /\ pc = "write"
    /\ CanFault
    /\ faults' = faults + 1
    /\ log' = Append(log, Event("writeStats", pending[idx].rowIndex, FALSE, cur.stats))
    /\ IF CatchesPerRecord(variant) THEN AfterRecord ELSE pc' = "failed" /\ idx' = idx
    /\ UNCHANGED <<postedHeader, queue, otherTabs, counterText, parsed, variant, observed, sheet, winners, passNo, pending, avg, cur, earlier, startSheet>>

DoCopyRow ==
    /\ pc = "copy"
    /\ winners' = CopyRowToTab(sheet, winners, pending[idx].rowIndex)
    /\ log' = Append(log, Event("copyRowToTab", pending[idx].rowIndex, TRUE, cur.stats))
    /\ AfterRecord
    /\ UNCHANGED <<postedHeader, queue, otherTabs, counterText, parsed, variant, observed, sheet, passNo, pending, avg, cur, faults, earlier, startSheet>>

\* A copy guarded only where the whole loop body is guarded
CopyGuardedWithRecord(v) == CatchesPerRecord(v)

\* try { await sheets.copyRowToTab(...) } catch (error) { console.error(...) }:
\* every loop wraps the copy in its own try/catch
CatchesCopy(v) == TRUE

\* The copy throws: caught and logged inside the loop body
CopyRowFail ==
    /\ pc = "copy"
    /\ CanFault
    /\ faults' = faults + 1
    /\ log' = Append(log, Event("copyRowToTab", pending[idx].rowIndex, FALSE, cur.stats))
    /\ IF CatchesCopy(variant) THEN AfterRecord ELSE pc' = "failed" /\ idx' = idx
    /\ UNCHANGED <<postedHeader, queue, otherTabs, counterText, parsed, variant, observed, sheet, winners, passNo, pending, avg, cur, earlier, startSheet>>

\* What becomes of an exception that leaves main: the page scrape
\* (main().catch: process.exit(1)) and the Voyager script (catch in main:
\* process.exit(1)) exit non-zero; collect-stats only prints it
\* (main().catch(console.error)) and exits 0
ExitsNonZeroOnThrow(v) == v \in {"browser", "voyager"}

\* The exit code of a process whose pass is over
ExitCode(v, p) == IF p = "failed" /\ ExitsNonZeroOnThrow(v) THEN 1 ELSE 0

\* The scripts whose main prints a count of updated posts after its loop
\* ("Updated stats for N posts", "Voyager collection complete. Updated N
\* posts."); collectXStats and collectLinkedInStats print no such line
HasSummaryLine(v) == v \in {"browser", "voyager"}

\* The summary line has been printed: it is the statement after the loop, inside
\* the try, so it runs only when the loop ran to its end without a throw
SummaryPrinted(v, p, records) == HasSummaryLine(v) /\ p = "done" /\ records # <<>>

\* The harness stops the process (hard timeout) between two steps
Kill ==
    /\ pc \in {"getPending", "getAvg", "match", "write", "copy"}
    /\ CanFault
    /\ faults' = faults + 1
    /\ pc' = "killed"
    /\ log' = Append(log, Event("kill", 0, FALSE, NoStats))
    /\ UNCHANGED <<postedHeader, queue, otherTabs, counterText, parsed, variant, observed, sheet, winners, passNo, pending, idx, avg, cur, earlier, startSheet>>

\* The script is run again: nothing is kept in the process between passes
NextPass ==
    /\ pc \in {"done", "failed", "killed"}
    /\ passNo < MaxPasses
    /\ passNo' = passNo + 1
    /\ pc' = "idle"
    /\ pending' = <<>>
    /\ idx' = 0
    /\ avg' = ZeroAverage
    /\ cur' = NoCur
    /\ startSheet' = sheet
    /\ earlier' = Append(earlier, \E j \in 1..Len(log) : IsFault(log[j]))
    /\ log' = <<>>
    /\ UNCHANGED <<postedHeader, queue, otherTabs, counterText, parsed, variant, observed, sheet, winners, faults>>

Next ==
    \/ StartPass
    \/ SourceFail
    \/ GetPending
    \/ GetPendingFail
    \/ GetAverage
    \/ GetAverageFail
    \/ Match
    \/ MatchFail
    \/ DoWriteStats
    \/ WriteStatsFail
    \/ DoCopyRow
    \/ CopyRowFail
    \/ Kill
    \/ NextPass

(* ------------------------------ inputs --------------------------------- *)
IdA == <<"u", ":", "1", "2">>
IdB == <<"u", ":", "7">>
TextA == <<"H", "i", " ", "a", "l", "l">>
TextB == <<"B", "i", "g", " ", "n", "e", "w", "s">>

OldDate == DateAt(Now - 4)

PendingRow(date, ppid, content) == MkRow(date, ppid, content, <<>>, <<>>, <<>>, <<>>)

\* A row a Voyager pass has measured: Impressions 0, an Engagement cell
MeasuredRow(engagementCell) ==
    MkRow(OldDate, IdB, TextB, <<"0">>, engagementCell, <<"0", "%">>, <<>>)

\* The rows already measured, above the rows that wait for stats
MainHistories ==
    { <<>>, <<MeasuredRow(<<"1">>), MeasuredRow(<<"1">>)>> }

MainPending ==
    { PendingRow(OldDate, IdA, TextA),
      PendingRow(OldDate, <<>>, TextB) }

\* Counter texts as the page shows them, read by parseMetricNumber
Text150 == <<"1", "5", "0">>
TextDot == <<"a", ".", "b", "5">>

MainMetrics ==
    { <<ParseMetricNumber(Text150), 8, 4>>,
      <<0, 0, 0>>,
      <<ParseMetricNumber(TextDot), 10, 0>>,
      <<ParseMetricNumber(Text150), 1, 0>> }

MainPostLists ==
    {<<>>}
    \cup { <<MkPost(IdA, {}, TextA, m[1], m[2], m[3])>> : m \in MainMetrics }
    \cup { <<MkPost(<<>>, {}, TextB, m[1], m[2], m[3]), MkPost(IdA, {}, TextA, 150, 8, 4)>> :
             m \in {<<ParseMetricNumber(TextDot), 10, 0>>, <<ParseMetricNumber(Text150), 1, 0>>} }

SheetsOver(rowSet) == UNION { [1..n -> rowSet] : n \in 0..MaxRows }

InitProcess ==
    /\ winners = <<>>
    /\ pc = "idle"
    /\ passNo = 1
    /\ pending = <<>>
    /\ idx = 0
    /\ avg = ZeroAverage
    /\ cur = NoCur
    /\ faults = 0
    /\ log = <<>>
    /\ earlier = <<>>
    /\ startSheet = sheet

InitPass ==
    /\ InitProcess
    /\ counterText = NoCounter
    /\ parsed = NotParsed
    /\ otherTabs = NoTabs
    /\ queue = <<>>
    /\ postedHeader = TRUE

Init ==
    /\ variant \in Variants
    /\ \E h \in MainHistories : \E p \in SheetsOver(MainPending) : sheet = h \o p
    /\ observed \in MainPostLists
    /\ InitPass

Spec == Init /\ [][Next]_vars

\* Classification inputs: baselines 0, 10 and 7.5, engagements around them
ClassifyHistories ==
    { <<>>,
      <<MeasuredRow(<<"1", "0">>)>>,
      <<MeasuredRow(<<"1", "0">>), MeasuredRow(<<"5">>)>> }

ClassifyEngagements == {0, 9, 10, 14, 15, 19, 20, 21}

InitClassify ==
    /\ variant \in Variants
    /\ \E h \in ClassifyHistories :
          \E p \in SheetsOver({PendingRow(OldDate, IdA, TextA)}) : sheet = h \o p
    /\ \E r \in ClassifyEngagements :
          observed = <<MkPost(IdA, {}, TextA, ParseMetricNumber(Text150), r, 0)>>
    /\ InitPass

SpecClassify == InitClassify /\ [][Next]_vars

\* Ledger inputs: the cells a Posted tab can hold in Posted At and Engagement
EngagementCells ==
    { <<>>, <<"0">>, <<"7">>, <<"1", ".", "5">>, <<"-", "3">>, <<"a", "b", "c">>,
      <<"1", "2", "a", "b", "c">> }

PostedAtCells ==
    { NoDate, BadDate, DateAt(Now - 4), DateAt(Now - HourUnits), DateAt(Now - 1),
      DateAt(Now + 2) }

LedgerRows ==
    { MeasuredRow(c) : c \in EngagementCells }
    \cup { PendingRow(d, IdA, TextA) : d \in PostedAtCells }

InitLedger ==
    /\ variant \in Variants
    /\ sheet \in SheetsOver(LedgerRows)
    /\ observed = <<MkPost(IdA, {}, TextA, ParseMetricNumber(Text150), 8, 4)>>
    /\ InitPass

SpecLedger == InitLedger /\ [][Next]_vars

(* ------------------------ identifier matching ------------------------- *)
TextC == <<"Y", "o">>
IdLong == <<"u", ":", "1", "2", "3">>
IdTwin == <<"v", ":", "1", "2">>
HrefA == <<"h", "/", "u", ":", "1", "2">>

PostA == MkPost(IdA, {}, TextA, 150, 8, 4)
PostB == MkPost(<<>>, {}, TextB, 150, 10, 0)
\* A post whose URN holds the suffix of IdA as a proper substring
PostLong == MkPost(IdLong, {}, TextC, 150, 1, 0)
\* A post that links to the post IdA
PostDeep == MkPost(IdB, {HrefA}, TextC, 150, 2, 0)
\* A second feed element whose URN ends in the suffix of IdA
PostTwin == MkPost(IdTwin, {}, TextC, 150, 3, 0)

IdPostLists ==
    { <<>>, <<PostA>>, <<PostB, PostA>>, <<PostLong, PostA>>, <<PostLong>>,
      <<PostDeep, PostA>>, <<PostA, PostTwin>>, <<PostTwin, PostA>> }

IdRows ==
    { PendingRow(OldDate, IdA, TextA),
      PendingRow(OldDate, IdA, TextB),
      PendingRow(OldDate, <<>>, TextB) }

InitIds ==
    /\ variant \in {"browser", "voyager"}
    /\ sheet \in SheetsOver(IdRows)
    /\ observed \in IdPostLists
    /\ InitPass

SpecIds == InitIds /\ [][Next]_vars

(* -------------------------- content matching --------------------------- *)
A50 == [i \in 1..PrefixLen |-> "a"]
LongX == A50 \o <<"x">>
LongY == A50 \o <<"y">>

BigLedger ==
    <<"B", "i", "g", " ", "a", "n", "n", "o", "u", "n", "c", "e", "m", "e", "n", "t",
      " ", "a", "b", "o", "u", "t", " ", "o", "u", "r", " ", "n", "e", "w", " ", "p",
      "r", "o", "d", "u", "c", "t", " ", "l", "a", "u", "n", "c", "h", " ", "t", "o",
      "d", "a", "y">>

BigSnippet ==
    <<"b", "i", "g", " ", "a", "n", "n", "o", "u", "n", "c", "e", "m", "e", "n", "t",
      " ", "a", "b", "o", "u", "t", " ", "o", "u", "r", " ", "n", "e", "w", " ", "p",
      "r", "o", "d", "u", "c", "t", " ", "l", "a", "u", "n", "c", "h", " ", "t", "o",
      "d", "a", "y", " ", "a", "n", "d", " ", "b", "e", "y", "o", "n", "d">>

Five == <<"a", " ", "b", " ", "c", " ", "d", " ", "e">>
FourOfFive == <<"z", " ", "a", " ", "b", " ", "c", " ", "d">>
ThreeOfFive == <<"a", " ", "b", " ", "c", " ", "y", " ", "z">>
FiveLoud == <<"A", " ", " ", "B", ",", " ", "c", " ", "D", " ", "e", "!">>
Bang == <<"?", "!">>

\* Thirty tokens, and the first twenty of them in reverse order
Thirty ==
    <<"a", " ", "b", " ", "c", " ", "d", " ", "e", " ", "f", " ", "g", " ", "h", " ",
      "i", " ", "j", " ", "k", " ", "l", " ", "m", " ", "n", " ", "o", " ", "p", " ",
      "q", " ", "r", " ", "s", " ", "t", " ", "0", " ", "1", " ", "2", " ", "3", " ",
      "4", " ", "5", " ", "6", " ", "7", " ", "8", " ", "9">>

TwentyReversed ==
    <<"t", " ", "s", " ", "r", " ", "q", " ", "p", " ", "o", " ", "n", " ", "m", " ",
      "l", " ", "k", " ", "j", " ", "i", " ", "h", " ", "g", " ", "f", " ", "e", " ",
      "d", " ", "c", " ", "b", " ", "a">>

TextPost(content) == MkPost(<<>>, {}, content, 150, 10, 0)

ContentPostLists ==
    { <<>>, <<PostA>>, <<TextPost(LongY)>>, <<TextPost(BigSnippet)>>,
      <<TextPost(FourOfFive)>>, <<TextPost(ThreeOfFive)>>, <<TextPost(FiveLoud)>>,
      <<TextPost(Bang)>>, <<TextPost(TwentyReversed)>> }

ContentRows ==
    { PendingRow(OldDate, <<>>, LongX),
      PendingRow(OldDate, <<>>, BigLedger),
      PendingRow(OldDate, <<>>, Five),
      PendingRow(OldDate, <<>>, Thirty),
      PendingRow(OldDate, <<>>, <<>>),
      PendingRow(OldDate, IdA, <<>>) }

\* One row to match, alone or above a second row
ContentSheets ==
    {<<>>} \cup {<<r>> : r \in ContentRows}
    \cup {<<r, PendingRow(OldDate, <<>>, Five)>> : r \in ContentRows}

InitContent ==
    /\ variant \in {"browser", "voyager"}
    /\ sheet \in ContentSheets
    /\ observed \in ContentPostLists
    /\ InitPass

SpecContent == InitContent /\ [][Next]_vars

(* ------------------- the counters of a scraped post -------------------- *)
MaxCounterLen == 3

CounterChars == {"1", "5", ".", ",", "K", "m", " ", "a"}

\* The texts the reference values of parseMetricNumber are given for
ReferenceTexts ==
    { <<"1", ",", "2", "3", "4">>, <<"1", ".", "2", "K">>, <<"1", ".", "2", "k">>,
      <<"3", "M">>, <<"3", "m">>, <<"1", " ", "2", "3", "4">> }

CounterTexts ==
    UNION { [1..n -> CounterChars] : n \in 0..MaxCounterLen } \cup ReferenceTexts

\* if (!str) return 0: null and '' are falsy
ParseCounterText(c) == IF ~c.present THEN 0 ELSE ParseMetricNumber(c.text)

\* scrapePostStats hands one counter text to parseMetricNumber
ParseCounter ==
    /\ ~parsed.done
    /\ parsed' = [done |-> TRUE, value |-> ParseCounterText(counterText)]
    /\ UNCHANGED <<postedHeader, queue, otherTabs, counterText, variant, observed, sheet, winners, pc, passNo, pending,
                   idx, avg, cur, faults, log, earlier, startSheet>>

InitNormalizer ==
    /\ variant = "browser"
    /\ sheet = <<>>
    /\ observed = <<>>
    /\ InitProcess
    /\ counterText \in {NoCounter} \cup {[present |-> TRUE, text |-> t] : t \in CounterTexts}
    /\ parsed = NotParsed
    /\ otherTabs = NoTabs
    /\ queue = <<>>
    /\ postedHeader = TRUE

NextNormalizer == ParseCounter

SpecNormalizer == InitNormalizer /\ [][NextNormalizer]_vars

(* ------------------------ collect-stats: main -------------------------- *)
\* main of collect-stats: await collectXStats(); await collectLinkedInStats();
\* The second await is reached only when the first returned: an exception
\* that leaves collectXStats rejects main, and main().catch only prints it.
\* The LinkedIn pass works on the LinkedIn Posted and LinkedIn Winners tabs.
StartLinkedInPass ==
    /\ variant = "x"
    /\ pc = "done"
    /\ variant' = "linkedinApi"
    /\ pc' = "idle"
    /\ sheet' = otherTabs.sheet
    /\ winners' = otherTabs.winners
    /\ observed' = otherTabs.observed
    /\ otherTabs' = [sheet |-> sheet, winners |-> winners, observed |-> observed]
    /\ startSheet' = otherTabs.sheet
    /\ pending' = <<>>
    /\ idx' = 0
    /\ avg' = ZeroAverage
    /\ cur' = NoCur
    /\ earlier' = Append(earlier, \E j \in 1..Len(log) : IsFault(log[j]))
    /\ log' = <<>>
    /\ UNCHANGED <<postedHeader, queue, passNo, faults, counterText, parsed>>

\* The process of collect-stats is over: the LinkedIn pass has ended, or the
\* X pass threw
CollectStatsOver(v, p) ==
    \/ v = "linkedinApi" /\ p \in {"done", "failed"}
    \/ v = "x" /\ p = "failed"

LinkedInTabs ==
    { [sheet |-> s, winners |-> <<>>, observed |-> o] :
        s \in SheetsOver({PendingRow(OldDate, IdA, TextA)}),
        o \in {<<>>, <<MkPost(IdA, {}, TextA, 150, 8, 4)>>} }

InitCollect ==
    /\ variant = "x"
    /\ \E h \in MainHistories : \E p \in SheetsOver(MainPending) : sheet = h \o p
    /\ observed \in MainPostLists
    /\ InitProcess
    /\ counterText = NoCounter
    /\ parsed = NotParsed
    /\ otherTabs \in LinkedInTabs
    /\ queue = <<>>
    /\ postedHeader = TRUE

NextCollect ==
    \/ StartPass
    \/ GetPending
    \/ GetPendingFail
    \/ GetAverage
    \/ GetAverageFail
    \/ Match
    \/ MatchFail
    \/ DoWriteStats
    \/ WriteStatsFail
    \/ DoCopyRow
    \/ CopyRowFail
    \/ Kill
    \/ StartLinkedInPass

SpecCollect == InitCollect /\ [][NextCollect]_vars

(* --------------------------- claim helpers ----------------------------- *)
\* Pass n (an earlier pass) ran without any exception or kill
PassClean(n) == n <= Len(earlier) /\ ~earlier[n]

PassFaulted(n) == n <= Len(earlier) /\ earlier[n]

\* The successful writeStats calls of the running pass on sheet row r
WritesOf(r) ==
    {j \in 1..Len(log) : log[j].op = "writeStats" /\ log[j].ok /\ log[j].row = r}

\* Record k of pending was handed to the matcher in the running pass
Processed(k) ==
    \E j \in 1..Len(log) :
        /\ log[j].op \in {"match", "matchThrow", "rateLimit"}
        /\ log[j].row = pending[k].rowIndex

(* ------------------------------- C1 ------------------------------------ *)
\* C1 (as claimed): when a pass has run to its end without any failure and is
\* run again on the same observed posts, the second run issues no writeStats
\* call and no winners append.
C1_SecondRunIssuesNothing ==
    \A i \in 1..Len(log) :
        (passNo = 2 /\ PassClean(1))
            => log[i].op \notin {"writeStats", "copyRowToTab"}

(* ------------------------------- C2 ------------------------------------ *)
\* C2 (as claimed): in every variant, when the matcher or writeStats throws
\* for one pending record, the pass still hands every pending record to the
\* matcher before it ends.
C2_FailingRecordDoesNotAbortBatch ==
    (/\ pc \in {"done", "failed"}
     /\ \E i \in 1..Len(log) :
            /\ log[i].op \in {"matchThrow", "writeStats"}
            /\ ~log[i].ok)
        => \A k \in 1..Len(pending) : Processed(k)

(* ------------------------------- C3 ------------------------------------ *)
\* C3 (as claimed): in every variant, a write-back with engagement 0 carries
\* winner = false, and no winners append is made for a record of engagement 0.
C3_ZeroEngagementNeverWinner ==
    \A i \in 1..Len(log) :
        (log[i].op \in {"writeStats", "copyRowToTab"} /\ log[i].eng = 0) => ~log[i].win

(* ------------------------------- C4 ------------------------------------ *)
\* C4 (as claimed): in every variant, when the baseline is 0 a matched record
\* with engagement 1..9 is not a winner and one with engagement >= 10 is.
C4_FallbackThresholdEveryVariant ==
    (pc = "write" /\ avg.n = 0)
        => /\ (cur.stats.engagement \in 1..9 => ~cur.stats.isWinner)
           /\ (cur.stats.engagement >= 10 => cur.stats.isWinner)

(* ------------------------------- C7 ------------------------------------ *)
\* C7: the baseline is read at most once per pass and before the first
\* write-back of the pass, and every record of the pass is classified against
\* the baseline of the Posted tab as it was when the pass began, whatever the
\* pass has written since.
C7_ThresholdComputedOncePerPass ==
    /\ Cardinality({j \in 1..Len(log) : log[j].op = "getAverageEngagement"}) <= 1
    /\ \A j \in 1..Len(log) :
          log[j].op = "writeStats"
              => \E i \in 1..(j - 1) : log[i].op = "getAverageEngagement" /\ log[i].ok
    /\ pc \in {"write", "copy"}
          => cur.stats.isWinner =
                 IsWinner(variant, cur.stats.engagement, GetAverageEngagement(startSheet))

\* A later record is about to be written after an earlier write-back of the
\* same pass changed the mean of the Engagement column.
C7_Witness ==
    /\ pc = "write"
    /\ idx >= 2
    /\ GetAverageEngagement(sheet) # GetAverageEngagement(startSheet)
    /\ IsWinner(variant, cur.stats.engagement, GetAverageEngagement(sheet))
           # cur.stats.isWinner

(* ------------------------------- C9 ------------------------------------ *)
\* C9: within one pass no sheet row gets more than one successful writeStats.
C9_AtMostOneWritePerRow ==
    \A r \in 2..(Len(sheet) + 1) : Cardinality(WritesOf(r)) <= 1

\* A pass that wrote two different rows has ended.
C9_Witness ==
    /\ pc = "done"
    /\ Len(pending) >= 2
    /\ \A k \in 1..Len(pending) : Cardinality(WritesOf(pending[k].rowIndex)) = 1

(* ------------------------------- C10 ----------------------------------- *)
\* C10 (as claimed): after a pass that failed or was stopped part-way, running
\* the pass again never appends a row to the Winners tab that is already
\* there, and never changes an Impressions cell set before the pass began.
C10_RerunAfterPartialFailure ==
    PassFaulted(1)
        => /\ \A a, b \in 1..Len(winners) :
                  a # b => winners[a].from # winners[b].from
           /\ \A k \in 1..Len(sheet) :
                  startSheet[k].impressions # <<>>
                      => sheet[k].impressions = startSheet[k].impressions

(* ------------------------------- C5 ------------------------------------ *)
\* C5: in the LinkedIn loops (page scrape, Voyager, LinkedIn API) the stats
\* handed to writeStats classify (engagement 0, baseline 0) as not a winner,
\* (10, 0) as a winner, (19, 10) as not a winner and (20, 10) as a winner, and
\* for every baseline > 0 a record is a winner iff engagement > 0 and
\* engagement >= 2 * baseline.
C5_ClassificationBoundary ==
    (pc = "write" /\ variant \in {"browser", "voyager", "linkedinApi"})
        => LET e == cur.stats.engagement
               w == cur.stats.isWinner
           IN  /\ (e = 0 /\ avg.n = 0) => ~w
               /\ (e = 10 /\ avg.n = 0) => w
               /\ (e = 19 /\ avg.n = 10 * avg.d) => ~w
               /\ (e = 20 /\ avg.n = 10 * avg.d) => w
               /\ avg.n > 0 => (w <=> (e > 0 /\ e * avg.d >= 2 * avg.n))

\* A record of engagement 20 is about to be written as a winner against the
\* baseline 10: the inclusive boundary.
C5_Witness ==
    /\ pc = "write"
    /\ variant = "linkedinApi"
    /\ avg.n = 10 * avg.d
    /\ cur.stats.engagement = 20
    /\ cur.stats.isWinner

(* ------------------------------- C6 ------------------------------------ *)
\* A cell that is a number as a whole: [-]digits[.digits]
IsNumberText(cell) ==
    LET body == IF cell # <<>> /\ Head(cell) = "-" THEN Tail(cell) ELSE cell
        ip == DigitRun(body)
        rest == SubSeq(body, Len(ip) + 1, Len(body))
    IN  /\ ip # <<>>
        /\ \/ rest = <<>>
           \/ (Head(rest) = "." /\ Tail(rest) # <<>> /\ DigitRun(Tail(rest)) = Tail(rest))

\* The sum, as a fraction, of the strictly positive numbers of the column
RECURSIVE PositiveSum(_, _)
PositiveSum(rows, i) ==
    IF i > Len(rows) THEN [n |-> 0, d |-> 1]
    ELSE LET rest == PositiveSum(rows, i + 1)
             f == ParseFloat(rows[i].engagement)
         IN  IF IsNumberText(rows[i].engagement) /\ f.n > 0
             THEN [n |-> f.n * rest.d + rest.n * f.d, d |-> f.d * rest.d]
             ELSE rest

PositiveCount(rows) ==
    Cardinality({i \in 1..Len(rows) :
        IsNumberText(rows[i].engagement) /\ ParseFloat(rows[i].engagement).n > 0})

\* C6 (as claimed): the baseline a pass reads is the arithmetic mean of the
\* strictly positive numbers of the Engagement column (zero, empty and
\* non-numeric cells left out of the sum and of the count), 0 when there is none.
C6_BaselineIsMeanOfPositiveNumbers ==
    (\E j \in 1..Len(log) : log[j].op = "getAverageEngagement" /\ log[j].ok)
        => LET s == PositiveSum(startSheet, 1)
               c == PositiveCount(startSheet)
           IN  IF c = 0 THEN avg.n = 0
               ELSE avg.n * (s.d * c) = s.n * avg.d

(* ------------------------------- C8 ------------------------------------ *)
\* Sheet row k + 1 is in postsNeedingStats
IsPending(k) == \E j \in 1..Len(pending) : pending[j].rowIndex = k + 1

WithoutSeparators(t) == SelectSeq(t, LAMBDA c : c \notin {",", " "})

\* The text with the case of every k and m suffix letter swapped
SwapCase(t) ==
    [i \in 1..Len(t) |->
        CASE t[i] = "K" -> "k" [] t[i] = "k" -> "K"
          [] t[i] = "M" -> "m" [] t[i] = "m" -> "M" [] OTHER -> t[i]]

\* C18: parseMetricNumber gives 1234 for "1,234", 1200 for "1.2K", 3000000
\* for "3M", 0 for "" and for an absent text; the result does not change when
\* the case of the k/m suffix changes or when commas and blanks are removed.
C18_NormalizerReferenceValues ==
    parsed.done
        => LET t == counterText.text
               v == parsed.value
           IN  /\ ~counterText.present => v = 0
               /\ (counterText.present /\ t = <<>>) => v = 0
               /\ t = <<"1", ",", "2", "3", "4">> => v = 1234
               /\ t = <<"1", ".", "2", "K">> => v = 1200
               /\ t = <<"3", "M">> => v = 3000000
               /\ counterText.present => v = ParseMetricNumber(SwapCase(t))
               /\ counterText.present => v = ParseMetricNumber(WithoutSeparators(t))

\* "1.2k", lower case, has been parsed to 1200.
C18_Witness ==
    parsed.done /\ counterText.text = <<"1", ".", "2", "k">> /\ parsed.value = 1200

(* ------------------------------- C19 ----------------------------------- *)
\* C19 (as claimed): for every text parseMetricNumber returns a non-negative
\* integer, and 0 for an absent or empty text and for a text with no digit
\* (a lone "." included).
C19_NormalizerTotalAndZeroOnGarbage ==
    parsed.done
        => /\ parsed.value \in Nat
           /\ (\A i \in 1..Len(counterText.text) : ~IsDigit(counterText.text[i]))
                 => parsed.value = 0

(* ------------------------------- C20 ----------------------------------- *)
\* The positions of the log that are calls of the ledger
LedgerCalls == {j \in 1..Len(log) : log[j].op # "source"}

\* C20: when getPostsNeedingStats returns no record, the pass is over at once
\* and ends normally: the read is its only ledger call (no baseline read, no
\* writeStats, no copyRowToTab), the Posted tab is as the pass found it, and
\* the pass is neither failed nor stopped.
C20_NoPendingEndsPassCleanly ==
    (\E j \in 1..Len(log) :
        log[j].op = "getPostsNeedingStats" /\ log[j].ok /\ log[j].row = 0)
        => /\ pc = "done"
           /\ Cardinality(LedgerCalls) = 1
           /\ pending = <<>>
           /\ sheet = startSheet

\* A second pass over a tab whose rows the first pass measured found nothing
\* pending and ended.
C20_Witness ==
    /\ pc = "done"
    /\ passNo = 2
    /\ Len(startSheet) > 0
    /\ Cardinality(LedgerCalls) = 1
    /\ \E j \in 1..Len(log) :
         log[j].op = "getPostsNeedingStats" /\ log[j].ok /\ log[j].row = 0
    /\ Len(winners) > 0

(* ---------------------------- C11 .. C14 ------------------------------- *)
\* The metrics the matcher of the running variant searches
Metrics == IF variant = "browser" THEN ScrapedPosts(observed) ELSE observed

\* The Platform Post ID of sheet row r
RowId(r) == sheet[r - 1].ppid

\* The metrics whose primary identifier ends in the suffix of the identifier id
Owners(id) ==
    {i \in 1..Len(Metrics) :
        Metrics[i].urn # <<>> /\ SplitPop(Metrics[i].urn) = SplitPop(id)}

\* C11 (as claimed): a record whose Platform Post ID ends in the suffix of one
\* metric's primary identifier is matched to that metric, whatever the other
\* metrics of the list hold.
C11_IdentifierMatchReturnsThatMetric ==
    /\ (pc = "write" /\ pending[idx].platformPostId # <<>>
            /\ Cardinality(Owners(pending[idx].platformPostId)) = 1)
          => \E i \in Owners(pending[idx].platformPostId) : cur.match.post = Metrics[i]
    /\ \A j \in 1..Len(log) :
          (log[j].op = "match" /\ ~log[j].ok /\ RowId(log[j].row) # <<>>)
              => Cardinality(Owners(RowId(log[j].row))) # 1

\* C12 (as claimed): a metric matched by identifier has a primary identifier
\* whose suffix equals the suffix of the record's Platform Post ID, or an
\* auxiliary identifier that ends in it; containing it is not enough.
C12_IdentifierTestIsEquality ==
    (pc = "write" /\ cur.match.by = "id")
        => LET sheetId == SplitPop(pending[idx].platformPostId)
               p == cur.match.post
           IN  \/ SplitPop(p.urn) = sheetId
               \/ \E u \in p.deepUrns : u = sheetId \/ SplitPop(u) = sheetId

\* The identifier test of the running variant, on one metric
PassesIdTest(p, id) ==
    IF variant = "browser" THEN IdMatchesScraped(p, SplitPop(id))
    ELSE p.urn # <<>> /\ ({SplitPop(id), id} \cap {p.urn, SplitPop(p.urn)}) # {}

\* C13 (as claimed): in every variant, the metric matched by identifier is the
\* first metric of the list that passes the identifier test.
C13_FirstIdentifierMatchWins ==
    (pc = "write" /\ cur.match.by = "id" /\ variant \in {"browser", "voyager"})
        => LET id == pending[idx].platformPostId
               hits == {i \in 1..Len(Metrics) : PassesIdTest(Metrics[i], id)}
           IN  hits # {} /\ cur.match.post = Metrics[FirstIndex(hits)]

\* C14: the content stage (the read of the raw rows) runs for a record only
\* when the identifier stage found no metric for it, and a record the
\* identifier stage matched keeps that match.
C14_StagesInPriorityOrder ==
    /\ \A j \in 1..Len(log) :
          log[j].op = "getRawRows"
              => ~IdStage(variant,
                          [rowIndex |-> log[j].row, platformPostId |-> RowId(log[j].row)],
                          observed).found
    /\ (pc \in {"write", "copy"} /\ ~CatchesPerRecord(variant)
            /\ IdStage(variant, pending[idx], observed).found)
          => cur.match = IdStage(variant, pending[idx], observed)

\* A record is matched by identifier to one metric while its content matches
\* another metric of the list.
C14_Witness ==
    /\ pc = "write"
    /\ ~CatchesPerRecord(variant)
    /\ cur.match.by = "id"
    /\ ContentStage(variant, pending[idx], sheet, observed).found
    /\ ContentStage(variant, pending[idx], sheet, observed).post # cur.match.post

(* ---------------------------- C15 .. C17 ------------------------------- *)
\* The Content cell of sheet row r
RowContent(r) == sheet[r - 1].content

\* The first 50 normalized characters of the two texts are equal
SamePrefix(a, b) ==
    Substring0(NormalizeText(a), 50) = Substring0(NormalizeText(b), 50)

\* The first 20 normalized tokens of a text
Tokens(t) ==
    LET w == SplitWords(NormalizeText(t)) IN SubSeq(w, 1, Min(20, Len(w)))

\* At least 80% of the tokens of a, each occurrence counted, are tokens of b
EightyPercent(a, b) ==
    LET ta == Tokens(a)
        tb == {Tokens(b)[j] : j \in 1..Len(Tokens(b))}
        hits == Cardinality({i \in 1..Len(ta) : ta[i] \in tb})
    IN  100 * hits >= 80 * Len(ta)

\* C15: in the page-scrape matcher, a record with a content is never left
\* unmatched while the list holds a metric whose first 50 normalized
\* characters equal the content's, however few tokens the two share.
C15_EqualPrefixMatches ==
    \A j \in 1..Len(log) :
        (variant = "browser" /\ log[j].op = "match" /\ ~log[j].ok
            /\ RowContent(log[j].row) # <<>>)
            => \A i \in 1..Len(Metrics) :
                   ~SamePrefix(RowContent(log[j].row), Metrics[i].content)

\* A record was matched by content to a metric with the same 50-character
\* prefix that shares none of its tokens.
C15_Witness ==
    /\ pc = "write"
    /\ variant = "browser"
    /\ cur.match.by = "content"
    /\ RowContent(pending[idx].rowIndex) = LongX
    /\ SamePrefix(LongX, cur.match.post.content)
    /\ ~EightyPercent(LongX, cur.match.post.content)

\* C16: in the page-scrape matcher, a metric whose 50-character prefix differs
\* from the record's is a content match iff at least 80% of the record's first
\* 20 tokens are among the metric's first 20 tokens; and the record "Big
\* announcement about our new product launch today" matches the snippet "big
\* announcement about our new product launch today and beyond".
C16_FuzzyMatchAtEightyPercent ==
    /\ (pc = "write" /\ variant = "browser" /\ cur.match.by = "content"
            /\ ~SamePrefix(RowContent(pending[idx].rowIndex), cur.match.post.content))
          => EightyPercent(RowContent(pending[idx].rowIndex), cur.match.post.content)
    /\ \A j \in 1..Len(log) :
          (variant = "browser" /\ log[j].op = "match" /\ ~log[j].ok
              /\ RowContent(log[j].row) # <<>>)
              => /\ \A i \in 1..Len(Metrics) :
                        ~EightyPercent(RowContent(log[j].row), Metrics[i].content)
                 /\ ~(/\ RowContent(log[j].row) = BigLedger
                      /\ \E i \in 1..Len(Metrics) : Metrics[i].content = BigSnippet)

\* A record of five tokens was matched by content to a metric that holds four
\* of them in another order and has another prefix.
C16_Witness ==
    /\ pc = "write"
    /\ variant = "browser"
    /\ cur.match.by = "content"
    /\ RowContent(pending[idx].rowIndex) = Five
    /\ cur.match.post.content = FourOfFive
    /\ ~SamePrefix(Five, FourOfFive)

\* C17: a record whose Content cell is empty is never matched by content: a
\* writeStats or copyRowToTab for such a row happens only when the identifier
\* stage matched it.
C17_EmptyContentNeverMatchesByContent ==
    /\ (pc \in {"write", "copy"} /\ RowContent(pending[idx].rowIndex) = <<>>)
          => cur.match.by = "id"
    /\ \A j \in 1..Len(log) :
          (log[j].op \in {"writeStats", "copyRowToTab"} /\ RowContent(log[j].row) = <<>>)
              => IdStage(variant,
                         [rowIndex |-> log[j].row, platformPostId |-> RowId(log[j].row)],
                         observed).found

\* A pass over metrics whose text normalizes to nothing ended with the record
\* of empty content and no identifier unmatched and unwritten.
C17_Witness ==
    /\ pc = "done"
    /\ \E i \in 1..Len(Metrics) : NormalizeText(Metrics[i].content) = <<>>
    /\ \E j \in 1..Len(log) :
          /\ log[j].op = "match" /\ ~log[j].ok
          /\ RowContent(log[j].row) = <<>>
          /\ RowId(log[j].row) = <<>>
          /\ sheet[log[j].row - 1].impressions = <<>>
    /\ winners = <<>>

(* ------------------------------- C21 ----------------------------------- *)
\* The positions of the log at which the platform was asked for metrics
SourceCalls ==
    {j \in 1..Len(log) : log[j].op \in {"source", "match", "matchThrow", "rateLimit",
                                        "primaryFetch"}
                         /\ (log[j].op = "source" \/ CatchesPerRecord(variant))}

\* C21: the pending records are requested from the ledger first; the metric
\* source is asked only after that read, and only when the read returned at
\* least one pending record.
C21_SourceOnlyAfterPendingRead ==
    \A j \in SourceCalls :
        \E i \in 1..(j - 1) :
            log[i].op = "getPostsNeedingStats" /\ log[i].ok /\ log[i].row > 0

(* ------------------------------- C22 ----------------------------------- *)
\* The calls of the pass that fetch or write a record
RecordCalls == {"match", "matchThrow", "rateLimit", "primaryFetch", "writeStats",
                "copyRowToTab"}

\* C22: once the metric source has answered with a rate-limit signal, the
\* pass fetches and writes no further pending record; the rows written before
\* the signal keep their values.
C22_RateLimitHaltsThePass ==
    \A j \in 1..Len(log) :
        log[j].op = "rateLimit"
            => /\ \A i \in (j + 1)..Len(log) : log[i].op \notin RecordCalls
               /\ \A i \in 1..(j - 1) :
                    (log[i].op = "writeStats" /\ log[i].ok)
                        => sheet[log[i].row - 1] # startSheet[log[i].row - 1]

(* ------------------------------- C23 ----------------------------------- *)
\* The positions of the log at which copyRowToTab threw
FailedCopies == {j \in 1..Len(log) : log[j].op = "copyRowToTab" /\ ~log[j].ok}

\* The loop went on after position j: the pass is at the next record or past
\* the last one, and whatever it did next was for another record
LoopWentOn(j) ==
    IF j = Len(log)
    THEN /\ pc \in {"match", "done"}
         /\ pc = "match" => pending[idx].rowIndex # log[j].row
    ELSE \/ log[j + 1].op = "kill"
         \/ /\ log[j + 1].op \in {"getRawRows", "match", "matchThrow", "rateLimit",
                                  "primaryFetch"}
            /\ log[j + 1].row # log[j].row

\* C23: when copyRowToTab throws for a winner, the write-back of that record
\* stays in the Posted tab, nothing is appended to the Winners tab for it in
\* this pass, the pass does not fail on it, and the loop goes on with the next
\* pending record.
C23_CopyFailureIsOnlyLogged ==
    \A j \in FailedCopies :
        LET r == log[j].row
        IN  /\ \E i \in 1..(j - 1) :
                 log[i].op = "writeStats" /\ log[i].ok /\ log[i].row = r
            /\ sheet[r - 1].winner = Trophy
            /\ sheet[r - 1].engagement = NumToText(log[j].eng)
            /\ \A i \in 1..Len(log) :
                 (log[i].op = "copyRowToTab" /\ log[i].row = r) => ~log[i].ok
            /\ LoopWentOn(j)

\* A pass whose copy for one winner threw went on, handled the next pending
\* record and ended normally, with nothing in the Winners tab for the first.
C23_Witness ==
    /\ pc = "done"
    /\ \E j \in FailedCopies :
         /\ j < Len(log)
         /\ log[j + 1].op = "match"
         /\ sheet[log[j].row - 1].winner = Trophy
         /\ \A a \in 1..Len(winners) : winners[a].from # log[j].row

(* ------------------------------- C24 ----------------------------------- *)
\* The scenario's ledger: three measured rows with Engagement 5, 7 and 6 (sheet
\* rows 2..4), then the pending record, whose rowIndex is therefore 5
Share999 == <<"s", ":", "9", "9", "9">>
Urn999 == <<"9", "9", "9">>

ScenarioHistory == <<MeasuredRow(<<"5">>), MeasuredRow(<<"7">>), MeasuredRow(<<"6">>)>>

ScenarioRow == PendingRow(OldDate, Share999, TextA)

\* The metric of the scenario and its neighbours: other impressions, a lower
\* engagement, the identifier in full
ScenarioPostLists ==
    { <<MkPost(urn, {}, TextB, imp, re[1], re[2])>> :
        urn \in {Urn999, Share999}, imp \in {150, 0, 7, 13}, re \in {<<8, 4>>, <<3, 2>>} }

ScenarioPost == <<MkPost(Urn999, {}, TextB, 150, 8, 4)>>

InitScenario ==
    /\ variant \in Variants
    /\ \E p \in SheetsOver({ScenarioRow}) : sheet = ScenarioHistory \o p
    /\ observed \in ScenarioPostLists
    /\ InitPass

SpecScenario == InitScenario /\ [][Next]_vars

\* The first page-scrape pass over the scenario's ledger and metric ended
\* without any exception
ScenarioPassEnded ==
    /\ variant = "browser"
    /\ observed = ScenarioPost
    /\ startSheet = ScenarioHistory \o <<ScenarioRow>>
    /\ passNo = 1
    /\ pc = "done"
    /\ \A j \in 1..Len(log) : ~IsFault(log[j])

\* What the scenario expects in row 5 (cells G..J: 150, 12, 8.00%, trophy)
ScenarioWritten ==
    MkRow(OldDate, Share999, TextA, <<"1", "5", "0">>, <<"1", "2">>,
          <<"8", ".", "0", "0", "%">>, Trophy)

\* The Engagement Rate cell says engagement / impressions as a percentage with
\* two decimals: it is within half a hundredth of a percent of the quotient
RateIsQuotient(cell, engagement, impressions) ==
    /\ cell # <<>>
    /\ cell[Len(cell)] = "%"
    /\ LET f == ParseFloat(SubSeq(cell, 1, Len(cell) - 1))
       IN  /\ ~f.nan
           /\ f.d = 100
           /\ 2 * (f.n * impressions - 10000 * engagement) <= impressions
           /\ 2 * (10000 * engagement - f.n * impressions) <= impressions

\* C24: in the scenario (pending record at rowIndex 5 with identifier
\* ...:999, one metric with identifier 999, reactions 8, comments 4,
\* impressions 150, history 5, 7, 6) the page-scrape pass matches by the
\* identifier, writes 150 / 12 / "8.00%" / winner to row 5 and appends row 5
\* to the Winners tab exactly once. And whenever a pass writes a row, the rate
\* cell is engagement / impressions when Impressions is positive and the fixed
\* "0%" when Impressions is 0.
C24_ScenarioAndRate ==
    /\ ScenarioPassEnded
         => /\ cur.match.found /\ cur.match.by = "id"
            /\ \A j \in 1..Len(log) : log[j].op # "getRawRows"
            /\ cur.stats.engagement = 12 /\ cur.stats.isWinner
            /\ sheet = ScenarioHistory \o <<ScenarioWritten>>
            /\ winners = <<[from |-> 5, row |-> ScenarioWritten]>>
    /\ \A j \in 1..Len(log) :
         (log[j].op = "writeStats" /\ log[j].ok /\ log[j].eng # NaN)
            => LET row == sheet[log[j].row - 1]
                   imp == ParseFloat(row.impressions)
               IN  /\ (IsNumberText(row.impressions) /\ imp.n > 0)
                        => RateIsQuotient(row.rate, log[j].eng, imp.n)
                   /\ row.impressions = <<"0">> => row.rate = <<"0", "%">>

\* The scenario's pass has ended with row 5 written and copied.
C24_Witness ==
    /\ ScenarioPassEnded
    /\ sheet[4] = ScenarioWritten
    /\ Len(winners) = 1
    /\ \E j \in 1..Len(log) : log[j].op = "writeStats" /\ log[j].ok /\ log[j].row = 5

(* ------------------------------- C25 ----------------------------------- *)
\* The running pass obtained the metrics of a pending record
MetricsObtained ==
    \E j \in 1..Len(log) : log[j].op = "match" /\ log[j].ok

\* C25: a pass that is over exits 0 when it ended normally (zero pending
\* records included); it exits non-zero only when a failure of the pass kept
\* it from obtaining metrics (the source, the read of the pending records or
\* the baseline read failed); a failure after the metrics of a record were
\* obtained, such as a writeStats error, never gives a non-zero exit.
C25_NonZeroExitOnlyWithoutMetrics ==
    /\ pc = "done" => ExitCode(variant, pc) = 0
    /\ (pc = "failed" /\ ExitCode(variant, pc) # 0) => ~MetricsObtained

(* ------------------------------- C26 ----------------------------------- *)
\* C26: every pass that found pending records prints its summary line when
\* it ends, also when it ended early because a record or a ledger call failed.
C26_SummaryLineAlwaysPrinted ==
    (pending # <<>> /\ pc \in {"done", "failed"})
        => SummaryPrinted(variant, pc, pending)

(* ------------------------------- C27 ----------------------------------- *)
\* C27: in collect-stats the LinkedIn pass is run whatever became of the X
\* pass: when the process is over, also after the X pass threw at pass level
\* (its read of the pending records or of the baseline failed), the LinkedIn
\* pass has been run.
C27_LinkedInPassRunsAfterXFailure ==
    CollectStatsOver(variant, pc) => variant = "linkedinApi"

(* ------------------------------- C28 ----------------------------------- *)
\* The positions of the log at which the matcher found no post for its record
Unmatched == {j \in 1..Len(log) : log[j].op = "match" /\ ~log[j].ok}

\* C28: a pending record for which the matcher finds no post is left as it
\* was and handled once: the pass issues no writeStats and no copyRowToTab for
\* its row, hands it to the matcher only that one time, leaves its row as the
\* pass found it, and the row still needs stats afterwards.
C28_UnmatchedRecordUntouched ==
    \A j \in Unmatched :
        LET r == log[j].row
        IN  /\ \A i \in 1..Len(log) :
                 log[i].row = r => log[i].op \notin {"writeStats", "copyRowToTab"}
            /\ Cardinality({i \in 1..Len(log) :
                              /\ log[i].op \in {"match", "matchThrow", "rateLimit"}
                              /\ log[i].row = r}) = 1
            /\ sheet[r - 1] = startSheet[r - 1]
            /\ NeedsStats(sheet[r - 1], Now)

\* A pass that ended normally found no post for one record and wrote another.
C28_Witness ==
    /\ pc = "done"
    /\ \E j \in Unmatched :
         /\ NeedsStats(sheet[log[j].row - 1], Now)
         /\ \E i \in 1..Len(log) :
              log[i].op = "writeStats" /\ log[i].ok /\ log[i].row # log[j].row

(* ------------------------------- C29 ----------------------------------- *)
\* Row k of the tab carries a whole write-back of the running pass: one
\* writeStats was issued for it, and Impressions, Engagement and Engagement
\* Rate are all set (the Winner cell is the trophy or, for a non-winner, empty)
FullyWritten(k) ==
    /\ Cardinality(WritesOf(k + 1)) = 1
    /\ sheet[k].impressions # <<>>
    /\ sheet[k].engagement # <<>>
    /\ sheet[k].rate # <<>>
    /\ sheet[k].winner \in {Trophy, <<>>}

\* C29: at every point of a pass, wherever it is stopped, each row of the
\* Posted tab is either as the pass found it or fully written by one update;
\* a pending record the loop has not reached still needs stats.
C29_RowsWrittenWhollyOrNotAtAll ==
    /\ \A k \in 1..Len(sheet) : sheet[k] = startSheet[k] \/ FullyWritten(k)
    /\ \A j \in 1..Len(pending) :
         ~Processed(j) => NeedsStats(sheet[pending[j].rowIndex - 1], Now)

(* ------------------------------- C30 ----------------------------------- *)
\* The positions of the log at which copyRowToTab appended a row
Copies == {j \in 1..Len(log) : log[j].op = "copyRowToTab" /\ log[j].ok}

\* C30: a pass never deletes or moves a row of the Posted tab. The tab keeps
\* its rows in their places; only rows for which writeStats was issued differ
\* from what the pass found, and they differ only in Impressions, Engagement,
\* Engagement Rate and Winner (Posted At, Platform Post ID and Content are as
\* before); a winners copy leaves the source row in place and the Winners tab
\* holds a copy of it.
C30_RowsNeverDeletedOrMoved ==
    /\ Len(sheet) = Len(startSheet)
    /\ \A k \in 1..Len(sheet) :
         /\ sheet[k].postedAt = startSheet[k].postedAt
         /\ sheet[k].ppid = startSheet[k].ppid
         /\ sheet[k].content = startSheet[k].content
         /\ sheet[k] # startSheet[k] => WritesOf(k + 1) # {}
    /\ \A j \in Copies :
         /\ log[j].row - 1 \in 1..Len(sheet)
         /\ \E a \in 1..Len(winners) :
              winners[a].from = log[j].row /\ winners[a].row = sheet[log[j].row - 1]

\* A pass has written a row and copied it to the Winners tab; the row is still
\* in the Posted tab with its content, and another row was left alone.
C30_Witness ==
    /\ pc = "done"
    /\ \E j \in Copies :
         /\ sheet[log[j].row - 1] # startSheet[log[j].row - 1]
         /\ sheet[log[j].row - 1].content # <<>>
         /\ sheet[log[j].row - 1].winner = Trophy
    /\ \E k \in 1..Len(sheet) : sheet[k] = startSheet[k]

(* ------------------------------- C31 ----------------------------------- *)
\* The positions of the log that are calls made for one record
RecordEvents == {j \in 1..Len(log) : log[j].op \in RecordCalls \cup {"getRawRows"}}

\* The place of a call in the body of the loop
StageOf(op) ==
    CASE op = "primaryFetch" -> 0
      [] op = "getRawRows" -> 1
      [] op \in {"match", "matchThrow", "rateLimit"} -> 2
      [] op = "writeStats" -> 3
      [] op = "copyRowToTab" -> 4

\* C31: the records are processed one after the other. In the order in which
\* the calls were made, the calls of one record come in the order of the loop
\* body (fetch or match, writeStats, copyRowToTab), each at most once, and all
\* of them before any call of a later record; the call the pass is about to
\* make (writeStats or copyRowToTab) is for the record of its latest call.
C31_RecordsStrictlySequential ==
    /\ \A i, j \in RecordEvents :
         i < j => \/ log[i].row < log[j].row
                  \/ log[i].row = log[j].row /\ StageOf(log[i].op) < StageOf(log[j].op)
    /\ pc \in {"write", "copy"}
         => /\ RecordEvents # {}
            /\ LET last == CHOOSE j \in RecordEvents : \A i \in RecordEvents : i <= j
               IN  /\ log[last].row = pending[idx].rowIndex
                   /\ log[last].ok
                   /\ log[last].op = IF pc = "write" THEN "match" ELSE "writeStats"

\* A pass has written two records one after the other, the first a winner
\* whose copy was made before the second record was matched.
C31_Witness ==
    /\ pc = "done"
    /\ \E a, b, c, d \in 1..Len(log) :
         /\ a < b /\ b < c /\ c < d
         /\ log[a].op = "writeStats" /\ log[a].ok
         /\ log[b].op = "copyRowToTab" /\ log[b].ok /\ log[b].row = log[a].row
         /\ log[c].op = "match" /\ log[c].row > log[a].row
         /\ log[d].op = "writeStats" /\ log[d].ok /\ log[d].row = log[c].row

(* ------------------------------- C32 ----------------------------------- *)
\* The other of the two LinkedIn variants that match against a fetched list
OtherVariant == IF variant = "browser" THEN "voyager" ELSE "browser"

\* C32 (as claimed): the page-scrape pass and the Voyager pass are
\* interchangeable. Whenever one of them has matched a pending record and is
\* about to write, the other one, given the same record, rows, baseline and
\* observed posts, finds the same post and computes the same engagement and
\* the same isWinner, hence the same writeStats and the same copyRowToTab.
\* (Impressions are left out of the comparison: the feed has none.)
C32_VariantsInterchangeable ==
    (pc = "write" /\ ~CatchesPerRecord(variant))
        => LET m == StagedMatch(OtherVariant, pending[idx], sheet, observed)
               stats == StatsOf(OtherVariant, m.post, avg, FALSE)
           IN  /\ m.found
               /\ m.post = cur.match.post
               /\ stats.engagement = cur.stats.engagement
               /\ stats.isWinner = cur.stats.isWinner

(* ------------------------------- C33 ----------------------------------- *)
\* The positions of the log at which copyRowToTab was called for sheet row r
CopyCallsOf(r) == {j \in 1..Len(log) : log[j].op = "copyRowToTab" /\ log[j].row = r}

\* C33: copyRowToTab is called for a row only after writeStats for that row
\* has returned in the same pass, and exactly when the record was classified
\* a winner: a written winner gets its copy call next (unless the process is
\* stopped first), a written non-winner gets none, and a record whose
\* writeStats threw gets none.
C33_CopyOnlyAfterWriteOfWinner ==
    /\ \A j \in 1..Len(log) :
         log[j].op = "copyRowToTab"
            => /\ j > 1
               /\ log[j - 1].op = "writeStats" /\ log[j - 1].ok
               /\ log[j - 1].row = log[j].row
               /\ log[j - 1].win
    /\ \A i \in 1..Len(log) :
         log[i].op = "writeStats"
            => IF log[i].ok /\ log[i].win
               THEN IF i = Len(log) THEN pc = "copy" /\ pending[idx].rowIndex = log[i].row
                    ELSE log[i + 1].op = "kill" \/ i + 1 \in CopyCallsOf(log[i].row)
               ELSE CopyCallsOf(log[i].row) = {}

\* A pass that ended has copied one written winner and has seen writeStats
\* throw for another winner, for which it made no copy call.
C33_Witness ==
    /\ pc = "done"
    /\ \E j \in 1..Len(log) : log[j].op = "copyRowToTab" /\ log[j].ok
    /\ \E i \in 1..Len(log) :
         /\ log[i].op = "writeStats" /\ log[i].win /\ ~log[i].ok
         /\ CopyCallsOf(log[i].row) = {}

(* ------------------------------- C34 ----------------------------------- *)
\* The post the LinkedIn API holds for sheet row r
ApiPost(r) == observed[FetchById(sheet[r - 1].ppid, observed)]

\* The record of position j of the log was answered by the fallback request:
\* its primary request had failed just before
ViaFallback(j) ==
    j > 1 /\ log[j - 1].op = "primaryFetch" /\ log[j - 1].row = log[j].row

\* C34: in the LinkedIn API pass the fallback request is made only after the
\* primary request of the same record failed; a record for which no request
\* answered gets no writeStats and no copyRowToTab and the loop goes on; and a
\* writeStats is issued only after one of the two requests answered, with
\* that request's values (the fallback has no impressions: 0).
C34_FallbackOnlyAfterPrimaryFailed ==
    variant = "linkedinApi"
        => /\ \A j \in 1..Len(log) :
                log[j].op = "primaryFetch"
                    => /\ ~log[j].ok
                       /\ j < Len(log)
                       /\ log[j + 1].op = "match" /\ log[j + 1].row = log[j].row
                       /\ \A i \in RecordEvents : i < j => log[i].row # log[j].row
           /\ \A j \in 1..Len(log) :
                (log[j].op \in {"matchThrow", "rateLimit"} \/ (log[j].op = "match" /\ ~log[j].ok))
                    => /\ \A i \in 1..Len(log) :
                            log[i].row = log[j].row
                                => log[i].op \notin {"writeStats", "copyRowToTab"}
                       /\ j = Len(log) => pc \in {"match", "done"}
           /\ \A j \in 1..Len(log) :
                log[j].op = "writeStats"
                    => /\ j > 1
                       /\ log[j - 1].op = "match" /\ log[j - 1].ok
                       /\ log[j - 1].row = log[j].row
                       /\ log[j].eng = OrZero(ApiPost(log[j].row).reactions)
                                       + OrZero(ApiPost(log[j].row).comments)
                       /\ log[j].ok
                            => sheet[log[j].row - 1].impressions =
                                 IF ViaFallback(j - 1) THEN <<"0">>
                                 ELSE NumToText(OrZero(ApiPost(log[j].row).impressions))

\* A LinkedIn API pass wrote one record from the fallback request (Impressions
\* 0 although the post has 150) after the primary request had failed.
C34_Witness ==
    /\ variant = "linkedinApi"
    /\ pc = "done"
    /\ \E j \in 1..Len(log) :
         /\ log[j].op = "writeStats" /\ log[j].ok
         /\ ViaFallback(j - 1)
         /\ ApiPost(log[j].row).impressions = 150
         /\ sheet[log[j].row - 1].impressions = <<"0">>

(* ---------------- the posting scripts: post-to-x, post-to-linkedin ------ *)
\* Posts per run of post-to-x and of post-to-linkedin
XBatchSize == 7
LinkedInBatchSize == 2

PostingScripts == {"postX", "postLinkedIn"}
BATCH_SIZE(v) == IF v = "postX" THEN XBatchSize ELSE LinkedInBatchSize

StatusPending == <<"p", "e", "n", "d", "i", "n", "g">>
StatusPendingCapital == <<"P", "e", "n", "d", "i", "n", "g">>
StatusPosted == <<"P", "o", "s", "t", "e", "d">>
StatusPostedLower == <<"p", "o", "s", "t", "e", "d">>
\* new Date().toISOString()
IsoStamp == <<"t">>

\* One data row of a Queue tab, its cells as texts: columns B (Content),
\* C (Status), D (Scheduled Time), E (Posted At), F (Platform Post ID)
MkQueueRow(content, status, scheduledTime, postedAt, ppid) ==
    [content |-> content, status |-> status, scheduledTime |-> scheduledTime,
     postedAt |-> postedAt, ppid |-> ppid]

QueuedRow(content, status) == MkQueueRow(content, status, <<>>, <<>>, <<>>)

\* The loop of getPendingPosts from data row i on: it stops at the end of the
\* rows or as soon as `limit` rows are collected
RECURSIVE PendingFrom(_, _, _, _)
PendingFrom(rows, i, limit, acc) ==
    IF i > Len(rows) \/ Len(acc) >= limit THEN acc
    ELSE PendingFrom(rows, i + 1, limit,
            IF ToLowerCase(rows[i].status) = StatusPending
            THEN Append(acc, [rowIndex |-> i + 1, content |-> rows[i].content])
            ELSE acc)

\* The same read without the limit
AllPendingPosts(rows, limit) == PendingFrom(rows, 1, Len(rows) + 1, <<>>)

GetPendingPosts(rows, limit) == PendingFrom(rows, 1, limit, <<>>)

\* markAsPosted's values.update: the three values 'Posted', the timestamp and
\* the platform id written from column C on, into a range that spans C to F
MarkAsPosted(rows, rowIndex, platformPostId) ==
    IF rowIndex - 1 > Len(rows) THEN rows
    ELSE [rows EXCEPT ![rowIndex - 1] =
            [@ EXCEPT !.status = StatusPosted,
                      !.scheduledTime = IsoStamp,
                      !.postedAt = platformPostId]]

\* copyRowToTab from the Queue tab to the Posted tab: the row appended
AppendQueueRow(rows, target, rowIndex) ==
    IF rowIndex - 1 > Len(rows) THEN target
    ELSE Append(target, rows[rowIndex - 1])

\* The id the platform gives to the post published from a row in a batch
PublishedId(rowIndex, batch) == <<"i">> \o NumToText(rowIndex) \o NumToText(batch)

\* What the loop's catch looks at in an error: its code and its message
PostErrors == [code429 : BOOLEAN, says : {"other", "rate limit", "429", "throttle"}]
NoError == [code429 |-> FALSE, says |-> "other"]

\* The test before `break`: post-to-x looks at error.code and 'rate limit',
\* post-to-linkedin at '429' and 'throttle' in the message
StopsBatch(v, error) ==
    IF v = "postX" THEN error.code429 \/ error.says = "rate limit"
    ELSE error.says \in {"429", "throttle"}

PostEvent(op, row, ok, error) == [op |-> op, row |-> row, ok |-> ok, error |-> error]

\* The loop moves to the next pending post, or the batch ends
AfterPost ==
    IF idx < Len(pending)
    THEN pc' = "publish" /\ idx' = idx + 1
    ELSE pc' = "batchDone" /\ idx' = idx

\* The catch of the loop
CatchPost(error) ==
    IF StopsBatch(variant, error) THEN pc' = "batchDone" /\ idx' = idx ELSE AfterPost

\* main up to the loop: getPendingPosts(tab, BATCH_SIZE)
StartBatch ==
    /\ pc = "postIdle"
    /\ pending' = GetPendingPosts(queue, BATCH_SIZE(variant))
    /\ log' = Append(log, PostEvent("getPendingPosts", Len(pending'), TRUE, NoError))
    /\ IF pending' = <<>> THEN pc' = "batchDone" /\ idx' = 0
                         ELSE pc' = "publish" /\ idx' = 1
    /\ UNCHANGED <<postedHeader, queue, otherTabs, counterText, parsed, variant, observed, sheet,
                   winners, passNo, avg, cur, faults, earlier, startSheet>>

\* client.v2.tweet / postToLinkedIn returns an id
Publish ==
    /\ pc = "publish"
    /\ log' = Append(log, PostEvent("publish", pending[idx].rowIndex, TRUE, NoError))
    /\ pc' = "mark"
    /\ UNCHANGED <<postedHeader, queue, otherTabs, counterText, parsed, variant, observed, sheet,
                   winners, passNo, pending, idx, avg, cur, faults, earlier, startSheet>>

\* client.v2.tweet / postToLinkedIn throws
PublishFail ==
    /\ pc = "publish"
    /\ CanFault
    /\ \E error \in PostErrors :
        /\ log' = Append(log, PostEvent("publish", pending[idx].rowIndex, FALSE, error))
        /\ CatchPost(error)
    /\ faults' = faults + 1
    /\ UNCHANGED <<postedHeader, queue, otherTabs, counterText, parsed, variant, observed, sheet,
                   winners, passNo, pending, avg, cur, earlier, startSheet>>

\* markAsPosted: its values.update succeeds
MarkPosted ==
    /\ pc = "mark"
    /\ queue' = MarkAsPosted(queue, pending[idx].rowIndex,
                             PublishedId(pending[idx].rowIndex, passNo))
    /\ log' = Append(log, PostEvent("markAsPosted", pending[idx].rowIndex, TRUE, NoError))
    /\ pc' = "markCopy"
    /\ UNCHANGED <<postedHeader, otherTabs, counterText, parsed, variant, observed, sheet,
                   winners, passNo, pending, idx, avg, cur, faults, earlier, startSheet>>

\* markAsPosted: its values.update throws, into the catch of the loop
MarkFail ==
    /\ pc = "mark"
    /\ CanFault
    /\ \E error \in PostErrors :
        /\ log' = Append(log, PostEvent("markAsPosted", pending[idx].rowIndex, FALSE, error))
        /\ CatchPost(error)
    /\ faults' = faults + 1
    /\ UNCHANGED <<postedHeader, queue, otherTabs, counterText, parsed, variant, observed, sheet,
                   winners, passNo, pending, avg, cur, earlier, startSheet>>

\* markAsPosted: the copy of the row to the Posted tab
MarkCopy ==
    /\ pc = "markCopy"
    /\ sheet' = AppendQueueRow(queue, sheet, pending[idx].rowIndex)
    /\ log' = Append(log, PostEvent("copyRowToTab", pending[idx].rowIndex, TRUE, NoError))
    /\ AfterPost
    /\ UNCHANGED <<postedHeader, queue, otherTabs, counterText, parsed, variant, observed,
                   winners, passNo, pending, avg, cur, faults, earlier, startSheet>>

\* markAsPosted: the copy throws, which markAsPosted itself catches and logs
MarkCopyFail ==
    /\ pc = "markCopy"
    /\ CanFault
    /\ log' = Append(log, PostEvent("copyRowToTab", pending[idx].rowIndex, FALSE, NoError))
    /\ AfterPost
    /\ faults' = faults + 1
    /\ UNCHANGED <<postedHeader, queue, otherTabs, counterText, parsed, variant, observed, sheet,
                   winners, passNo, pending, avg, cur, earlier, startSheet>>

\* The scheduler starts the next batch of the same script
NextBatch ==
    /\ pc = "batchDone"
    /\ passNo < MaxPasses
    /\ passNo' = passNo + 1
    /\ pc' = "postIdle"
    /\ pending' = <<>>
    /\ idx' = 0
    /\ UNCHANGED <<postedHeader, queue, otherTabs, counterText, parsed, variant, observed, sheet,
                   winners, avg, cur, faults, log, earlier, startSheet>>

NextPosting ==
    \/ StartBatch
    \/ Publish
    \/ PublishFail
    \/ MarkPosted
    \/ MarkFail
    \/ MarkCopy
    \/ MarkCopyFail
    \/ NextBatch

\* Queue tabs: short ones over the kinds of Status cell, and one with more
\* pending rows than either batch size
QueueRows ==
    { QueuedRow(TextA, StatusPending), QueuedRow(TextB, StatusPendingCapital),
      MkQueueRow(TextA, StatusPosted, <<>>, IsoStamp, IdA),
      QueuedRow(TextB, <<>>) }

LongQueue ==
    [i \in 1..(XBatchSize + 3) |->
        CASE i = 1 -> MkQueueRow(TextB, StatusPosted, <<>>, IsoStamp, IdA)
          [] i = 2 -> QueuedRow(TextB, StatusPendingCapital)
          [] OTHER -> QueuedRow(TextA, StatusPending)]

PostingQueues == SheetsOver(QueueRows) \cup {LongQueue}

InitPosting ==
    /\ variant \in PostingScripts
    /\ queue \in PostingQueues
    /\ sheet = <<>>
    /\ observed = <<>>
    /\ winners = <<>>
    /\ pc = "postIdle"
    /\ passNo = 1
    /\ pending = <<>>
    /\ idx = 0
    /\ avg = ZeroAverage
    /\ cur = NoCur
    /\ faults = 0
    /\ log = <<>>
    /\ earlier = <<>>
    /\ startSheet = <<>>
    /\ counterText = NoCounter
    /\ parsed = NotParsed
    /\ otherTabs = NoTabs
    /\ postedHeader = TRUE

SpecPosting == InitPosting /\ [][NextPosting]_vars

(* ------------------------------ C35 ------------------------------------- *)
\* A rate-limit error: code 429, or a message that contains 'rate limit',
\* '429' or 'throttle'
RateLimitError(error) == error.code429 \/ error.says \in {"rate limit", "429", "throttle"}

\* The failed post attempts of the log: a publish or a markAsPosted that threw
FailedAttempts ==
    { j \in 1..Len(log) : log[j].op \in {"publish", "markAsPosted"} /\ ~log[j].ok }

\* C35: in post-to-x and post-to-linkedin, once a post attempt fails with a
\* rate-limit error (code 429, or a message with 'rate limit', '429' or
\* 'throttle') no later pending post of that batch is attempted: the batch is
\* over, and the next event, if any, is the queue read of the next batch.
\* After any other failure the loop goes on with the next pending post, or
\* ends because the failed post was the last one.
C35_RateLimitHaltsTheBatch ==
    \A j \in FailedAttempts :
        IF RateLimitError(log[j].error)
        THEN /\ j < Len(log) => log[j + 1].op = "getPendingPosts"
             /\ j = Len(log) => pc = "batchDone"
        ELSE j = Len(log) =>
                \/ pc = "publish"
                \/ pc = "batchDone" /\ idx = Len(pending)

(* ------------------------------ C36 ------------------------------------- *)
\* The publish calls of the log that returned an id
Published == { j \in 1..Len(log) : log[j].op = "publish" /\ log[j].ok }

\* The queue reads of the log
QueueReads == { k \in 1..Len(log) : log[k].op = "getPendingPosts" }

\* C36: a queue row whose publish call succeeded is never published again,
\* in the same batch or a later one: once a later batch has read the queue
\* the row's Status is no longer 'pending' (a Status cell never goes back to
\* pending), whatever failed after the publish, and no row has two
\* successful publish calls.
C36_PublishedRowNeverRepublished ==
    /\ \A j \in Published :
          (\E k \in QueueReads : k > j) =>
             ToLowerCase(queue[log[j].row - 1].status) # StatusPending
    /\ \A i, j \in Published : i < j => log[i].row # log[j].row

(* ------------------------------ C37 ------------------------------------- *)
\* The queue has just been read: no row of it has been marked since
FreshRead ==
    \/ pc = "publish" /\ idx = 1
    \/ pc = "batchDone" /\ pending = <<>>

\* Whether data row i of the queue has Status 'pending', ignoring case
PendingIgnoringCase(i) == ToLowerCase(queue[i].status) = StatusPending

\* The publish calls, successful or not, since the last queue read
AttemptsSinceRead ==
    { j \in 1..Len(log) : log[j].op = "publish" /\ \A k \in QueueReads : k < j }

\* C37: getPendingPosts returns at most `limit` rows, each with Status
\* 'pending' ignoring case, in ascending row order from the first pending row
\* on (a pending row is left out only when `limit` rows above it were taken),
\* each with rowIndex = its 1-based sheet row (data row i is sheet row i + 1);
\* so one X batch attempts at most 7 posts and one LinkedIn batch at most 2.
C37_PendingPostsBoundedAndOrdered ==
    /\ FreshRead =>
        /\ Len(pending) <= BATCH_SIZE(variant)
        /\ \A k \in 1..Len(pending) :
              /\ pending[k].rowIndex - 1 \in 1..Len(queue)
              /\ PendingIgnoringCase(pending[k].rowIndex - 1)
              /\ pending[k].content = queue[pending[k].rowIndex - 1].content
        /\ \A a, b \in 1..Len(pending) : a < b => pending[a].rowIndex < pending[b].rowIndex
        /\ \A i \in 1..Len(queue) :
              PendingIgnoringCase(i) =>
                 \/ \E k \in 1..Len(pending) : pending[k].rowIndex = i + 1
                 \/ /\ Len(pending) = BATCH_SIZE(variant)
                    /\ pending[Len(pending)].rowIndex < i + 1
    /\ Cardinality(AttemptsSinceRead) <= (IF variant = "postX" THEN 7 ELSE 2)

\* A read of a queue with more pending rows than the X batch takes: seven
\* rows returned, from sheet row 3 (Status 'Pending') on, a pending row left
C37_Witness ==
    /\ variant = "postX"
    /\ FreshRead
    /\ Len(pending) = 7
    /\ pending[1].rowIndex = 3
    /\ queue[2].status = StatusPendingCapital
    /\ \E i \in 1..Len(queue) : PendingIgnoringCase(i) /\ i + 1 > pending[7].rowIndex

(* ---------------- backfill-posted: backfill(platform) ------------------- *)
\* The header row of a Queue or Posted tab: each cell holds its column's name
HeaderRow ==
    MkQueueRow(<<"Content">>, <<"Status">>, <<"Scheduled Time">>, <<"Posted At">>,
               <<"Platform Post ID">>)

\* getRawRows of the Posted tab: row 1 is the header row if the tab has one
GetRawRows(header, rows) == IF header THEN <<HeaderRow>> \o rows ELSE rows

\* headers.indexOf(name): the column of the first row whose cell is the name
IndexOf(headers, name) ==
    IF \E f \in DOMAIN headers : headers[f] = name
    THEN CHOOSE f \in DOMAIN headers : headers[f] = name
    ELSE "-1"

\* postedIds as built from the Posted tab: the non-empty ids in the column
\* that the first row names 'Platform Post ID', of the rows below the first
PostedIdsOf(postedRows) ==
    IF Len(postedRows) > 1 /\ IndexOf(postedRows[1], <<"Platform Post ID">>) # "-1"
    THEN LET pIdIdx == IndexOf(postedRows[1], <<"Platform Post ID">>)
         IN  { postedRows[i][pIdIdx] : i \in 2..Len(postedRows) } \ {<<>>}
    ELSE {}

\* The test of the loop: status === 'Posted' && platformId, and the id not
\* yet in postedIds
ShouldCopy(row, postedIds) ==
    /\ row.status = StatusPosted
    /\ row.ppid # <<>>
    /\ row.ppid \notin postedIds

\* The loop moves to the next queue row, or the run ends
AfterQueueRow ==
    IF idx < Len(queue)
    THEN pc' = "fillRow" /\ idx' = idx + 1
    ELSE pc' = "fillDone" /\ idx' = idx

\* backfill up to its loop: both tabs read, postedIds built
StartBackfill ==
    /\ pc = "fillIdle"
    /\ log' = Append(log, PostEvent("backfill", Len(queue), TRUE, NoError))
    /\ startSheet' = sheet
    /\ cur' = [postedIds |-> PostedIdsOf(GetRawRows(postedHeader, sheet)), copied |-> 0]
    /\ IF queue = <<>> THEN pc' = "fillDone" /\ idx' = 0
                       ELSE pc' = "fillRow" /\ idx' = 1
    /\ UNCHANGED <<postedHeader, queue, otherTabs, counterText, parsed, variant, observed,
                   sheet, winners, passNo, pending, avg, faults, earlier>>

\* One turn of the loop over the queue rows
FillRow ==
    /\ pc = "fillRow"
    /\ IF ShouldCopy(queue[idx], cur.postedIds)
       THEN /\ sheet' = AppendQueueRow(queue, sheet, idx + 1)
            /\ cur' = [postedIds |-> cur.postedIds \cup {queue[idx].ppid},
                       copied |-> cur.copied + 1]
            /\ log' = Append(log, PostEvent("copyRowToTab", idx + 1, TRUE, NoError))
       ELSE UNCHANGED <<sheet, cur, log>>
    /\ AfterQueueRow
    /\ UNCHANGED <<postedHeader, queue, otherTabs, counterText, parsed, variant, observed,
                   winners, passNo, pending, avg, faults, earlier, startSheet>>

\* copyRowToTab throws: the catch around the whole body logs, the run is over
FillCopyFail ==
    /\ pc = "fillRow"
    /\ CanFault
    /\ ShouldCopy(queue[idx], cur.postedIds)
    /\ log' = Append(log, PostEvent("copyRowToTab", idx + 1, FALSE, NoError))
    /\ pc' = "fillFailed"
    /\ faults' = faults + 1
    /\ UNCHANGED <<postedHeader, queue, otherTabs, counterText, parsed, variant, observed,
                   sheet, winners, passNo, pending, idx, avg, cur, earlier, startSheet>>

\* The script is run again
NextBackfill ==
    /\ pc \in {"fillDone", "fillFailed"}
    /\ passNo < MaxPasses
    /\ passNo' = passNo + 1
    /\ earlier' = Append(earlier, pc = "fillFailed")
    /\ pc' = "fillIdle"
    /\ idx' = 0
    /\ UNCHANGED <<postedHeader, queue, otherTabs, counterText, parsed, variant, observed,
                   sheet, winners, pending, avg, cur, faults, log, startSheet>>

NextBackfillRun ==
    \/ StartBackfill
    \/ FillRow
    \/ FillCopyFail
    \/ NextBackfill

\* Queue rows as a backfill finds them: marked Posted with an id, without
\* one, marked 'posted', and still pending
BackfillRows ==
    { MkQueueRow(TextA, StatusPosted, <<>>, IsoStamp, IdA),
      MkQueueRow(TextB, StatusPosted, <<>>, IsoStamp, IdB),
      MkQueueRow(TextA, StatusPosted, <<>>, IsoStamp, <<>>),
      MkQueueRow(TextB, StatusPostedLower, <<>>, IsoStamp, IdB),
      QueuedRow(TextA, StatusPending) }

\* The Posted tab before the first run: with its header row and no or one
\* data row, or a new tab that is still empty
InitBackfill ==
    /\ variant = "backfill"
    /\ queue \in SheetsOver(BackfillRows)
    /\ \/ postedHeader = TRUE
          /\ sheet \in {<<>>, <<MkQueueRow(TextA, StatusPosted, <<>>, IsoStamp, IdA)>>}
       \/ postedHeader = FALSE /\ sheet = <<>>
    /\ observed = <<>>
    /\ winners = <<>>
    /\ pc = "fillIdle"
    /\ passNo = 1
    /\ pending = <<>>
    /\ idx = 0
    /\ avg = ZeroAverage
    /\ cur = [postedIds |-> {}, copied |-> 0]
    /\ faults = 0
    /\ log = <<>>
    /\ earlier = <<>>
    /\ startSheet = sheet
    /\ counterText = NoCounter
    /\ parsed = NotParsed
    /\ otherTabs = NoTabs

SpecBackfill == InitBackfill /\ [][NextBackfillRun]_vars

(* ------------------------------ C38 ------------------------------------- *)
\* The start of the running backfill in the log
RunStart == CHOOSE k \in 1..Len(log) :
                log[k].op = "backfill" /\ \A m \in (k + 1)..Len(log) : log[m].op # "backfill"

\* The rows copied by the running backfill (by the last one, between runs)
CopiedInRun ==
    { j \in 1..Len(log) : j > RunStart /\ log[j].op = "copyRowToTab" /\ log[j].ok }

\* The ids the Posted tab held in its data rows when the run began
IdsInPostedTab == { startSheet[i].ppid : i \in 1..Len(startSheet) }

\* C38: backfill is duplicate-free and idempotent: in one run a queue row is
\* copied only if its Status is 'Posted', it has a Platform Post ID, and that
\* id is neither in the Posted tab already nor copied earlier in the run;
\* and a run that directly follows a fully successful run copies no row.
C38_BackfillDuplicateFreeAndIdempotent ==
    log # <<>> =>
      /\ \A j \in CopiedInRun :
            LET row == queue[log[j].row - 1]
            IN  /\ row.status = StatusPosted
                /\ row.ppid # <<>>
                /\ row.ppid \notin IdsInPostedTab
                /\ \A i \in CopiedInRun : i < j => queue[log[i].row - 1].ppid # row.ppid
      /\ (pc # "fillIdle" /\ earlier # <<>> /\ ~earlier[Len(earlier)]) => CopiedInRun = {}

(* ------------------------------ C39 ------------------------------------- *)
\* The scripts that launch a browser (chromium.launch) before their pass: the
\* page scrape, and the hybrid forms of the Voyager script, which read the
\* feed from inside a Playwright page
LaunchesBrowser(v) == v \in {"browser", "voyager"}

\* The scripts whose main has `catch (error) { ...; process.exit(1); }` ahead
\* of its finally block: the process ends inside the catch
ExitsInCatch(v) == v = "voyager"

\* browser.close() has run when the process leaves main at p: it is the
\* statement of the finally block, which runs after the try block ended or
\* threw, unless the catch block has ended the process first
BrowserClosed(v, p) ==
    /\ LaunchesBrowser(v)
    /\ \/ p = "done"
       \/ p = "failed" /\ ~ExitsInCatch(v)

\* C39: the browser a stats-collection script launched is closed on every
\* path out of main, on normal completion and when an error was thrown
\* after the launch, in the page scrape and in the hybrid variants.
C39_BrowserClosedOnEveryPath ==
    (LaunchesBrowser(variant) /\ pc \in {"done", "failed"}) => BrowserClosed(variant, pc)

(* ------------------------------ C40 ------------------------------------- *)
\* Ledger contents without a letter or digit: punctuation, blanks around a
\* symbol; and a content with words
Dots == <<" ", ".", ".", ".", " ">>

SymbolRows ==
    { PendingRow(OldDate, <<>>, Bang),
      PendingRow(OldDate, <<>>, Dots),
      PendingRow(OldDate, <<>>, Five) }

\* Scraped posts whose text is punctuation only, next to posts with words
SymbolPostLists ==
    { <<>>, <<TextPost(Bang)>>, <<PostA>>, <<PostA, TextPost(Dots)>>,
      <<TextPost(Five), TextPost(Bang)>> }

InitSymbols ==
    /\ variant = "browser"
    /\ sheet \in SheetsOver(SymbolRows)
    /\ observed \in SymbolPostLists
    /\ InitPass

SpecSymbols == InitSymbols /\ [][Next]_vars

\* The record in hand was resolved by findMatchingPost
MatchedByContent ==
    /\ variant = "browser"
    /\ pc \in {"write", "copy"}
    /\ cur.match.found
    /\ cur.match.by = "content"

\* C40: findMatchingPost returns no metric for a ledger content whose
\* normalized form is empty (only punctuation, symbols or blanks), whatever
\* the list holds, metrics whose own text normalizes to empty included.
C40_EmptyNormalizedContentNeverMatches ==
    MatchedByContent =>
        NormalizeText(GetPostContent(sheet, pending[idx].rowIndex)) # <<>>

====
